---- MODULE Spec2Model ----
(***************************************************************************)
(* ValutaTrade Hub: wallets, the session portfolio, the buy/sell use       *)
(* cases and the rate lookup they rest on.                                 *)
(*                                                                         *)
(* Amounts and balances are Python floats.  They are modelled as integers  *)
(* (a fixed-point unit) together with the three special float values       *)
(* inf, -inf and nan, which the command line accepts (argparse type=float) *)
(* and which the comparisons of the code treat as IEEE-754 does.           *)
(***************************************************************************)
EXTENDS Integers, Sequences, FiniteSets, TLC

VARIABLES
    wallet,         \* _balance of one stand-alone Wallet object
    wres,           \* the last deposit/withdraw call on it and its outcome
    session,        \* TRUE when _current_user is set (login_user succeeded)
    wallets,        \* _current_portfolio._wallets: currency code -> balance
    portfoliosFile, \* wallets of the user's record in data/portfolios.json
    ratesFile,      \* content of data/rates.json
    dbCache,        \* DatabaseManager._cache entry of data/rates.json
    last,           \* the last use-case call, its inputs and its result
    pc,             \* SpecConc: per thread, position inside sell_currency
    loc,            \* SpecConc: per thread, the locals of sell_currency
    now,            \* datetime.now(), in seconds
    history,        \* content of data/exchange_rates.json and its clock
    upd,            \* the last run_update: what was polled and its report
    req,            \* _make_request: the attempt cycle of one request
    config,         \* the ParserConfig object in use
    store,          \* rates.json and rates.tmp under concurrent update_rates
    sched           \* RatesScheduler: its fields and its worker threads

vars == <<wallet, wres, session, wallets, portfoliosFile, ratesFile, dbCache,
          last, pc, loc, now, history, upd, req, config, store, sched>>

----------------------------------------------------------------------------
(* Bounds of the model. *)

MaxBalance == 5
MaxStored == 2
MaxAmount == 2
MaxRate == 2
MaxRuns == 1
MaxKept == 2
MaxRecords == 4
MaxStarts == 2
MaxSleep == 1
MaxCycles == 2

----------------------------------------------------------------------------
(* Python floats: finite values and inf, -inf, nan. *)

FiniteMax == MaxBalance + MaxAmount
Inf == FiniteMax + 1
NegInf == 0 - Inf
NaN == FiniteMax + 2

IsNaN(x) == x = NaN
IsFinite(x) == x # NaN /\ x # Inf /\ x # NegInf

\* a < b, a > b, a <= b: every comparison with nan is False
FLt(a, b) == ~IsNaN(a) /\ ~IsNaN(b) /\ a < b
FGt(a, b) == FLt(b, a)
FLe(a, b) == ~IsNaN(a) /\ ~IsNaN(b) /\ a <= b

FNeg(a) == IF IsNaN(a) THEN NaN ELSE 0 - a

\* a + b: inf + (-inf) is nan
FAdd(a, b) ==
    IF IsNaN(a) \/ IsNaN(b) THEN NaN
    ELSE IF a = Inf THEN (IF b = NegInf THEN NaN ELSE Inf)
    ELSE IF a = NegInf THEN (IF b = Inf THEN NaN ELSE NegInf)
    ELSE IF b = Inf \/ b = NegInf THEN b
    ELSE a + b

FSub(a, b) == FAdd(a, FNeg(b))

\* bool(x): only zero is falsy, nan is truthy
Truthy(x) == x # 0

\* the amounts a caller may pass
Amounts == ((0 - 1) .. MaxAmount) \cup {Inf, NegInf, NaN}

\* the amounts passed to the use cases
LedgerAmounts == ((0 - 1) .. MaxAmount) \cup {Inf, NaN}

\* the balances a Wallet object is constructed with
Balances == 0 .. MaxBalance

----------------------------------------------------------------------------
(* Wallet (core/models.py) *)

\* deposit without the check of the sign of the amount
deposit_any_sign(balance, amount) ==
    IF ~Truthy(amount) THEN [raised |-> "TypeError", balance |-> balance]
    ELSE [raised |-> "none", balance |-> FAdd(balance, amount)]

\* Wallet.deposit: the exception raised ("none" when it returns) and _balance
deposit(balance, amount) ==
    IF ~Truthy(amount) THEN [raised |-> "TypeError", balance |-> balance]
    ELSE IF FLt(amount, 0) THEN [raised |-> "ValueError", balance |-> balance]
    ELSE [raised |-> "none", balance |-> FAdd(balance, amount)]

\* withdraw without the check of the amount against the balance
withdraw_unchecked(balance, amount) ==
    IF ~Truthy(amount) THEN [raised |-> "TypeError", balance |-> balance]
    ELSE IF FLt(amount, 0) THEN [raised |-> "ValueError", balance |-> balance]
    ELSE [raised |-> "none", balance |-> FSub(balance, amount)]

\* Wallet.withdraw
withdraw(balance, amount) ==
    IF ~Truthy(amount) THEN [raised |-> "TypeError", balance |-> balance]
    ELSE IF FGt(amount, balance) THEN [raised |-> "ValueError", balance |-> balance]
    ELSE IF FLt(amount, 0) THEN [raised |-> "ValueError", balance |-> balance]
    ELSE [raised |-> "none", balance |-> FSub(balance, amount)]

\* a finite balance stays within the model's range
InRange(b) == ~IsFinite(b) \/ b <= MaxBalance

NoCall == [op |-> "none", amount |-> 0, pre |-> 0, raised |-> "none"]

\* one call of deposit on the stand-alone wallet
Deposit(a) ==
    LET r == deposit(wallet, a) IN
    /\ InRange(r.balance)
    /\ wallet' = r.balance
    /\ wres' = [op |-> "deposit", amount |-> a, pre |-> wallet, raised |-> r.raised]
    /\ UNCHANGED <<session, wallets, portfoliosFile, ratesFile, dbCache,
                   last, pc, loc, now, history, upd, req, config, store,
                   sched>>

\* one call of withdraw on the stand-alone wallet
Withdraw(a) ==
    LET r == withdraw(wallet, a) IN
    /\ wallet' = r.balance
    /\ wres' = [op |-> "withdraw", amount |-> a, pre |-> wallet, raised |-> r.raised]
    /\ UNCHANGED <<session, wallets, portfoliosFile, ratesFile, dbCache,
                   last, pc, loc, now, history, upd, req, config, store,
                   sched>>

----------------------------------------------------------------------------
(* Currency registry (core/currencies.py) and the base currency *)

Registry == {"USD", "EUR", "BTC"}
Codes == Registry \cup {"XYZ"}
\* the codes passed to buy_currency and sell_currency
LedgerCodes == {"USD", "BTC", "XYZ"}

\* get_currency: TRUE when the code is registered (else CurrencyNotFoundError)
get_currency(code) == code \in Registry

----------------------------------------------------------------------------
(* Rates: a rate is a rational n/d; None is the value with d = 0 *)

None == [n |-> 0, d |-> 0]
One == [n |-> 1, d |-> 1]
Rate(r) == [n |-> r, d |-> 1]
\* a reverse rate used as it is stored
InverseAsStored(r) == [n |-> r, d |-> 1]

\* 1.0 / r for a stored rate r # 0
Inverse(r) == [n |-> 1, d |-> r]
\* a / b for rates a and b # 0
Quotient(a, b) == [n |-> a.n * b.d, d |-> a.d * b.n]
\* a = b as numbers
SameRate(a, b) == a.n * b.d = b.n * a.d
IsNone(r) == r.d = 0
\* bool(rate): None and 0 are falsy
RateTruthy(r) == r.n # 0

\* the pair key f"{from}_{to}"
Key(from, to) == <<from, to>>

EmptyMap == [k \in {} |-> 0]
Single(k, v) == [x \in {k} |-> v]

\* data/rates.json: top-level pair entries (the format of
\* DatabaseManager.update_rate) and the entries under "pairs" (RatesStorage)
\* "at" holds the updated_at of each entry under "pairs", in seconds
\* and "source" the source of each
\* "last_refresh" is the time of the last update_rates, Never for null
Never == 0 - 1
NoFile == [exists |-> FALSE, top |-> EmptyMap, pairs |-> EmptyMap, at |-> EmptyMap,
           source |-> EmptyMap, last_refresh |-> Never]
Stamped(top, pairs, at, source) ==
    [exists |-> TRUE, top |-> top, pairs |-> pairs, at |-> at, source |-> source,
     last_refresh |-> Never]
\* a file whose entries were all stored at second 0
File(top, pairs) ==
    Stamped(top, pairs, [k \in DOMAIN pairs |-> 0], [k \in DOMAIN pairs |-> "file"])

NotLoaded == [loaded |-> FALSE, data |-> NoFile]

\* DatabaseManager.load_rates / _load_json: the cached object if there is one,
\* else the file's content (an absent file gives the default {}), now cached
load_rates(file, cache) ==
    IF cache.loaded THEN cache ELSE [loaded |-> TRUE, data |-> file]

\* DatabaseManager.get_rate: the rate, the cache after the call and the number
\* of reads of the rates file (none when the cache answers)
get_rate(from, to, file, cache) ==
    IF from = to THEN [rate |-> One, cache |-> cache, reads |-> 0]
    ELSE
        LET c == load_rates(file, cache)
            rates == c.data.top
            n == IF cache.loaded \/ ~file.exists THEN 0 ELSE 1
        IN  IF Key(from, to) \in DOMAIN rates
            THEN [rate |-> Rate(rates[Key(from, to)]), cache |-> c, reads |-> n]
            ELSE IF Key(to, from) \in DOMAIN rates /\ Truthy(rates[Key(to, from)])
            THEN [rate |-> Inverse(rates[Key(to, from)]), cache |-> c, reads |-> n]
            ELSE [rate |-> None, cache |-> c, reads |-> n]

\* RatesStorage(): _ensure_file_exists writes an empty cache file if none exists
RatesStorage(file) == IF file.exists THEN file ELSE File(EmptyMap, EmptyMap)

\* settings_loader.get("CACHE_TTL_SECONDS", 300)
CACHE_TTL_SECONDS == 300

\* the TTL check of _get_rate_with_ttl: TRUE when the entry of the pair (or,
\* failing that, of the reverse pair) under "pairs" is older than the TTL at
\* second t; the check only logs a warning
IsStale(from, to, file, t) ==
    IF Key(from, to) \in DOMAIN file.at
    THEN t - file.at[Key(from, to)] > CACHE_TTL_SECONDS
    ELSE IF Key(to, from) \in DOMAIN file.at
    THEN t - file.at[Key(to, from)] > CACHE_TTL_SECONDS
    ELSE FALSE

\* _get_rate_with_ttl with a stale rate treated as unavailable
get_rate_strict_ttl(from, to, file, cache) ==
    LET g == get_rate(from, to, file, cache)
        st == RatesStorage(file)
        pairs == st.pairs
        created == IF file.exists THEN 0 ELSE 1
    IN  IF ~IsNone(g.rate)
        THEN [rate |-> IF IsStale(from, to, st, now) THEN None ELSE g.rate,
              file |-> st, cache |-> g.cache,
              reads |-> g.reads + 1, writes |-> created,
              stale |-> IsStale(from, to, st, now)]
        ELSE IF Key(from, to) \in DOMAIN pairs /\ Truthy(pairs[Key(from, to)])
        THEN [rate |-> Rate(pairs[Key(from, to)]), file |-> st, cache |-> g.cache,
              reads |-> g.reads + 1, writes |-> created, stale |-> FALSE]
        ELSE IF Key(to, from) \in DOMAIN pairs /\ Truthy(pairs[Key(to, from)])
        THEN [rate |-> Inverse(pairs[Key(to, from)]), file |-> st, cache |-> g.cache,
              reads |-> g.reads + 1, writes |-> created, stale |-> FALSE]
        ELSE [rate |-> None, file |-> st, cache |-> g.cache,
              reads |-> g.reads + 1, writes |-> created, stale |-> FALSE]

\* _get_rate_with_ttl: the rate returned, the rates file and the
\* DatabaseManager cache after the call, the reads and writes of the rate
\* store it made, and whether the stale-rate warning was logged.  The TTL
\* check is made only when DatabaseManager.get_rate answers, and only logs.
get_rate_with_ttl(from, to, file, cache) ==
    LET g == get_rate(from, to, file, cache)
        st == RatesStorage(file)
        pairs == st.pairs
        created == IF file.exists THEN 0 ELSE 1
    IN  IF ~IsNone(g.rate)
        THEN [rate |-> g.rate, file |-> st, cache |-> g.cache,
              reads |-> g.reads + 1, writes |-> created,
              stale |-> IsStale(from, to, st, now)]
        ELSE IF Key(from, to) \in DOMAIN pairs /\ Truthy(pairs[Key(from, to)])
        THEN [rate |-> Rate(pairs[Key(from, to)]), file |-> st, cache |-> g.cache,
              reads |-> g.reads + 1, writes |-> created, stale |-> FALSE]
        ELSE IF Key(to, from) \in DOMAIN pairs /\ Truthy(pairs[Key(to, from)])
        THEN [rate |-> Inverse(pairs[Key(to, from)]), file |-> st, cache |-> g.cache,
              reads |-> g.reads + 1, writes |-> created, stale |-> FALSE]
        ELSE [rate |-> None, file |-> st, cache |-> g.cache,
              reads |-> g.reads + 1, writes |-> created, stale |-> FALSE]

\* _convert_through_usd: the cross rate through USD, used by show_portfolio
\* only; get_exchange_rate, buy_currency and sell_currency never call it
convert_through_usd(from, to, file, cache) ==
    LET a == get_rate_with_ttl(from, "USD", file, cache)
        b == get_rate_with_ttl(to, "USD", a.file, a.cache)
        t == get_rate_with_ttl(to, "USD", file, cache)
    IN  IF from = "USD"
        THEN [rate |-> IF RateTruthy(t.rate) THEN Quotient(One, t.rate) ELSE None,
              file |-> t.file, cache |-> t.cache]
        ELSE IF to = "USD"
        THEN [rate |-> a.rate, file |-> a.file, cache |-> a.cache]
        ELSE [rate |-> IF RateTruthy(a.rate) /\ RateTruthy(b.rate)
                       THEN Quotient(a.rate, b.rate) ELSE None,
              file |-> b.file, cache |-> b.cache]

----------------------------------------------------------------------------
(* Portfolio (core/models.py) *)

\* the balance of the wallet of a code, 0 when the portfolio holds none
Bal(ws, code) == IF code \in DOMAIN ws THEN ws[code] ELSE 0

\* _wallets with the wallet of code set to balance b
SetWallet(ws, code, b) ==
    [c \in (DOMAIN ws) \cup {code} |-> IF c = code THEN b ELSE ws[c]]

\* Portfolio.get_wallet: _wallets after the call; an absent wallet is created
\* with balance 0.0
get_wallet(ws, code) == IF code \in DOMAIN ws THEN ws ELSE SetWallet(ws, code, 0)

\* the attributes class Portfolio defines; buy_currency and sell_currency call
\* portfolio.get_or_create_wallet, which is none of them: AttributeError
PortfolioAttrs == {"user_id", "wallets", "add_currency", "get_total_value",
                   "get_wallet", "to_dict", "from_dict"}

----------------------------------------------------------------------------
(* Use cases (core/usecases.py) *)

\* the result of a use case that stops before the rate lookup
Stop(kind, ws, file, cache) ==
    [ok |-> FALSE, kind |-> kind, wallets |-> ws, file |-> file, cache |-> cache,
     saved |-> FALSE, rate |-> None, reads |-> 0, writes |-> 0, stale |-> FALSE]

\* the result of a use case that stops after the rate lookup q
StopAfter(kind, ws, q) ==
    [ok |-> FALSE, kind |-> kind, wallets |-> ws, file |-> q.file, cache |-> q.cache,
     saved |-> FALSE, rate |-> q.rate, reads |-> q.reads, writes |-> q.writes,
     stale |-> q.stale]

\* buy_currency with the target wallet credited before the funds step
buy_credit_first(sess, ws, file, cache, code, amount) ==
    LET q == get_rate_with_ttl(code, "USD", file, cache)
        w1 == get_wallet(ws, code)
        dp == deposit(w1[code], amount)
    IN  IF ~sess THEN Stop("AuthenticationError", ws, file, cache)
        ELSE IF FLe(amount, 0) THEN Stop("ValidationError", ws, file, cache)
        ELSE IF ~get_currency(code) THEN Stop("CurrencyNotFoundError", ws, file, cache)
        ELSE IF code = "USD" THEN Stop("BaseCurrency", ws, file, cache)
        ELSE IF ~RateTruthy(q.rate) THEN StopAfter("ApiRequestError", ws, q)
        ELSE StopAfter("AttributeError", SetWallet(w1, code, dp.balance), q)

\* buy_currency without the validation of the amount
buy_no_amount_check(sess, ws, file, cache, code, amount) ==
    LET q == get_rate_with_ttl(code, "USD", file, cache)
    IN  IF ~sess THEN Stop("AuthenticationError", ws, file, cache)
        ELSE IF ~get_currency(code) THEN Stop("CurrencyNotFoundError", ws, file, cache)
        ELSE IF code = "USD" THEN Stop("BaseCurrency", ws, file, cache)
        ELSE IF ~RateTruthy(q.rate) THEN StopAfter("ApiRequestError", ws, q)
        ELSE StopAfter("AttributeError", ws, q)

\* buy_currency: every call ends in a failure result.  A call that passes the
\* validation and finds a rate reaches portfolio.get_or_create_wallet("USD"),
\* which raises AttributeError before the funds are compared; the generic
\* handler turns it into a failure result.
buy_currency(sess, ws, file, cache, code, amount) ==
    LET q == get_rate_with_ttl(code, "USD", file, cache)
    IN  IF ~sess THEN Stop("AuthenticationError", ws, file, cache)
        ELSE IF FLe(amount, 0) THEN Stop("ValidationError", ws, file, cache)
        ELSE IF ~get_currency(code) THEN Stop("CurrencyNotFoundError", ws, file, cache)
        ELSE IF code = "USD" THEN Stop("BaseCurrency", ws, file, cache)
        ELSE IF ~RateTruthy(q.rate) THEN StopAfter("ApiRequestError", ws, q)
        ELSE IF "get_or_create_wallet" \notin PortfolioAttrs
             THEN StopAfter("AttributeError", ws, q)
        ELSE StopAfter("unreachable", ws, q)

\* sell_currency: get_wallet creates an absent wallet; a call that passes the
\* funds check and finds a rate withdraws the amount and then reaches
\* portfolio.get_or_create_wallet("USD"), which raises AttributeError.
sell_currency(sess, ws, file, cache, code, amount) ==
    LET w1 == get_wallet(ws, code)
        q == get_rate_with_ttl(code, "USD", file, cache)
        wd == withdraw(w1[code], amount)
    IN  IF ~sess THEN Stop("AuthenticationError", ws, file, cache)
        ELSE IF FLe(amount, 0) THEN Stop("ValidationError", ws, file, cache)
        ELSE IF ~get_currency(code) THEN Stop("CurrencyNotFoundError", ws, file, cache)
        ELSE IF code = "USD" THEN Stop("ValidationError", ws, file, cache)
        ELSE IF FLt(w1[code], amount) THEN Stop("InsufficientFunds", w1, file, cache)
        ELSE IF ~RateTruthy(q.rate) THEN StopAfter("ApiRequestError", w1, q)
        ELSE IF wd.raised # "none" THEN StopAfter(wd.raised, w1, q)
        ELSE IF "get_or_create_wallet" \notin PortfolioAttrs
             THEN StopAfter("AttributeError", SetWallet(w1, code, wd.balance), q)
        ELSE StopAfter("unreachable", w1, q)

NoOp == [op |-> "none", code |-> "USD", to |-> "USD", amount |-> 0, sess |-> FALSE,
         ok |-> FALSE, kind |-> "none", rate |-> None, pre |-> EmptyMap,
         prePersist |-> EmptyMap, preFile |-> NoFile, preCache |-> NotLoaded,
         saved |-> FALSE, reads |-> 0, writes |-> 0, stale |-> FALSE, at |-> 0,
         rates |-> EmptyMap]

\* the record of a ledger call and its result r
Called(op, code, amount, r) ==
    [op |-> op, code |-> code, to |-> "USD", amount |-> amount, sess |-> session,
     ok |-> r.ok, kind |-> r.kind, rate |-> r.rate, pre |-> wallets,
     prePersist |-> portfoliosFile, preFile |-> ratesFile, preCache |-> dbCache,
     saved |-> r.saved, reads |-> r.reads, writes |-> r.writes, stale |-> r.stale,
     at |-> now, rates |-> EmptyMap]

\* login_user: the session portfolio is rebuilt from the stored record
Login ==
    /\ session' = TRUE
    /\ wallets' = portfoliosFile
    /\ last' = [NoOp EXCEPT !.op = "login", !.sess = session, !.ok = TRUE,
                            !.pre = wallets, !.prePersist = portfoliosFile,
                            !.preFile = ratesFile, !.preCache = dbCache]
    /\ UNCHANGED <<wallet, wres, portfoliosFile, ratesFile, dbCache, pc, loc,
                   now, history, upd, req, config, store, sched>>

\* one call of buy_currency(code, amount)
BuyCurrency(code, amount) ==
    LET r == buy_currency(session, wallets, ratesFile, dbCache, code, amount) IN
    /\ wallets' = r.wallets
    /\ ratesFile' = r.file
    /\ dbCache' = r.cache
    /\ last' = Called("buy", code, amount, r)
    /\ UNCHANGED <<wallet, wres, session, portfoliosFile, pc, loc, now,
                   history, upd, req, config, store, sched>>

\* one call of sell_currency(code, amount)
SellCurrency(code, amount) ==
    LET r == sell_currency(session, wallets, ratesFile, dbCache, code, amount) IN
    /\ wallets' = r.wallets
    /\ ratesFile' = r.file
    /\ dbCache' = r.cache
    /\ last' = Called("sell", code, amount, r)
    /\ UNCHANGED <<wallet, wres, session, portfoliosFile, pc, loc, now,
                   history, upd, req, config, store, sched>>

\* get_exchange_rate(from, to): the public rate query
get_exchange_rate(from, to, file, cache) ==
    LET q == get_rate_with_ttl(from, to, file, cache)
    IN  IF ~get_currency(from) \/ ~get_currency(to)
        THEN Stop("CurrencyNotFoundError", wallets, file, cache)
        ELSE IF from = to
        THEN [Stop("none", wallets, file, cache) EXCEPT !.ok = TRUE, !.rate = One]
        ELSE IF ~RateTruthy(q.rate) THEN StopAfter("ApiRequestError", wallets, q)
        ELSE [StopAfter("none", wallets, q) EXCEPT
                 !.ok = TRUE, !.reads = q.reads + 1]

\* update_rates stamping every entry of the file with the time of the call
update_rates_restamp_all(file, rates, source) ==
    LET old == RatesStorage(file)
        keys == (DOMAIN old.pairs) \cup (DOMAIN rates)
    IN  [Stamped(old.top,
                 [k \in keys |-> IF k \in DOMAIN rates THEN rates[k] ELSE old.pairs[k]],
                 [k \in keys |-> now],
                 [k \in keys |-> IF k \in DOMAIN rates THEN source ELSE old.source[k]])
         EXCEPT !.last_refresh = now]

\* RatesStorage.update_rates: every pair of the batch is overwritten with the
\* rate, the time of the call and the source, the other entries of the file
\* are kept, and last_refresh is set to the time of the call
update_rates(file, rates, source) ==
    LET old == RatesStorage(file)
        keys == (DOMAIN old.pairs) \cup (DOMAIN rates)
    IN  [Stamped(old.top,
                 [k \in keys |-> IF k \in DOMAIN rates THEN rates[k] ELSE old.pairs[k]],
                 [k \in keys |-> IF k \in DOMAIN rates THEN now ELSE old.at[k]],
                 [k \in keys |-> IF k \in DOMAIN rates THEN source ELSE old.source[k]])
         EXCEPT !.last_refresh = now]

\* the record of a rate call and its result r
Asked(op, from, to, r) ==
    [Called(op, from, 0, r) EXCEPT !.to = to]

\* one call of get_exchange_rate(from, to)
GetExchangeRate(from, to) ==
    LET r == get_exchange_rate(from, to, ratesFile, dbCache) IN
    /\ ratesFile' = r.file
    /\ dbCache' = r.cache
    /\ last' = Asked("get_exchange_rate", from, to, r)
    /\ UNCHANGED <<wallet, wres, session, wallets, portfoliosFile, pc, loc,
                   now, history, upd, req, config, store, sched>>

\* one call of _get_rate_with_ttl(from, to, db, settings), the lookup the
\* ledger and the portfolio valuation use
GetRateWithTtl(from, to) ==
    LET q == get_rate_with_ttl(from, to, ratesFile, dbCache) IN
    /\ ratesFile' = q.file
    /\ dbCache' = q.cache
    /\ last' = Asked("_get_rate_with_ttl", from, to,
                     [StopAfter("none", wallets, q) EXCEPT !.ok = ~IsNone(q.rate)])
    /\ UNCHANGED <<wallet, wres, session, wallets, portfoliosFile, pc, loc,
                   now, history, upd, req, config, store, sched>>

\* time passes
Instants == {0, CACHE_TTL_SECONDS - 1, CACHE_TTL_SECONDS, CACHE_TTL_SECONDS + 1}

Tick ==
    /\ \E t \in Instants : t > now /\ now' = t
    /\ UNCHANGED <<wallet, wres, session, wallets, portfoliosFile, ratesFile,
                   dbCache, last, pc, loc, history, upd, req, config, store,
                   sched>>

\* one batch of rates stored by the update coordinator
UpdateRates(rates) ==
    /\ ratesFile' = update_rates(ratesFile, rates, "CoinGecko")
    /\ last' = [NoOp EXCEPT !.op = "update_rates", !.sess = session, !.ok = TRUE,
                            !.pre = wallets, !.prePersist = portfoliosFile,
                            !.preFile = ratesFile, !.preCache = dbCache,
                            !.writes = 1, !.at = now, !.rates = rates]
    /\ UNCHANGED <<wallet, wres, session, wallets, portfoliosFile, dbCache,
                   pc, loc, now, history, upd, req, config, store, sched>>

----------------------------------------------------------------------------
(* buy_currency and sell_currency called from two threads on the session
   portfolio.  No lock is taken anywhere on the way, so the threads may be
   switched between any two of the steps below; `self._balance -= amount` is
   a load of _balance followed by a store. *)

Goto(t, label) == pc' = [pc EXCEPT ![t] = label]

\* the call is made; require_authentication, the validation of the amount
\* and get_currency pass for the inputs drawn here
Begin(t, op, code, amount) ==
    /\ pc[t] = "idle"
    /\ session /\ FGt(amount, 0) /\ get_currency(code) /\ code # "USD"
    /\ loc' = [loc EXCEPT ![t] = [op |-> op, code |-> code, amount |-> amount,
                                  read |-> 0]]
    /\ Goto(t, IF op = "sell" THEN "s_wallet" ELSE "b_rate")
    /\ UNCHANGED <<wallet, wres, session, wallets, portfoliosFile, ratesFile,
                   dbCache, last, now, history, upd, req, config, store,
                   sched>>

\* sell_currency: wallet = portfolio.get_wallet(currency_code)
SellGetWallet(t) ==
    /\ pc[t] = "s_wallet"
    /\ wallets' = get_wallet(wallets, loc[t].code)
    /\ Goto(t, "s_funds")
    /\ UNCHANGED <<wallet, wres, session, portfoliosFile, ratesFile, dbCache,
                   last, loc, now, history, upd, req, config, store, sched>>

\* sell_currency: if wallet.balance < amount: return False, ...
SellCheckFunds(t) ==
    /\ pc[t] = "s_funds"
    /\ Goto(t, IF FLt(wallets[loc[t].code], loc[t].amount) THEN "done" ELSE "s_rate")
    /\ UNCHANGED <<wallet, wres, session, wallets, portfoliosFile, ratesFile,
                   dbCache, last, loc, now, history, upd, req, config, store,
                   sched>>

\* sell_currency: rate = _get_rate_with_ttl(currency_code, "USD", db, settings)
SellRate(t) ==
    LET q == get_rate_with_ttl(loc[t].code, "USD", ratesFile, dbCache) IN
    /\ pc[t] = "s_rate"
    /\ ratesFile' = q.file
    /\ dbCache' = q.cache
    /\ Goto(t, IF RateTruthy(q.rate) THEN "w_check" ELSE "done")
    /\ UNCHANGED <<wallet, wres, session, wallets, portfoliosFile, last, loc,
                   now, history, upd, req, config, store, sched>>

\* Wallet.withdraw: the checks of the amount
WithdrawCheck(t) ==
    /\ pc[t] = "w_check"
    /\ Goto(t, IF withdraw(wallets[loc[t].code], loc[t].amount).raised = "none"
               THEN "w_load" ELSE "done")
    /\ UNCHANGED <<wallet, wres, session, wallets, portfoliosFile, ratesFile,
                   dbCache, last, loc, now, history, upd, req, config, store,
                   sched>>

\* Wallet.withdraw: self._balance -= amount, the load
WithdrawLoad(t) ==
    /\ pc[t] = "w_load"
    /\ loc' = [loc EXCEPT ![t].read = wallets[loc[t].code]]
    /\ Goto(t, "w_store")
    /\ UNCHANGED <<wallet, wres, session, wallets, portfoliosFile, ratesFile,
                   dbCache, last, now, history, upd, req, config, store,
                   sched>>

\* Wallet.withdraw: self._balance -= amount, the store
WithdrawStore(t) ==
    /\ pc[t] = "w_store"
    /\ wallets' = SetWallet(wallets, loc[t].code, FSub(loc[t].read, loc[t].amount))
    /\ Goto(t, "s_usd")
    /\ UNCHANGED <<wallet, wres, session, portfoliosFile, ratesFile, dbCache,
                   last, loc, now, history, upd, req, config, store, sched>>

\* sell_currency: portfolio.get_or_create_wallet("USD") raises AttributeError
SellUsdWallet(t) ==
    /\ pc[t] = "s_usd"
    /\ "get_or_create_wallet" \notin PortfolioAttrs
    /\ Goto(t, "done")
    /\ UNCHANGED <<wallet, wres, session, wallets, portfoliosFile, ratesFile,
                   dbCache, last, loc, now, history, upd, req, config, store,
                   sched>>

\* buy_currency: rate = _get_rate_with_ttl(currency_code, "USD", db, settings)
BuyRate(t) ==
    LET q == get_rate_with_ttl(loc[t].code, "USD", ratesFile, dbCache) IN
    /\ pc[t] = "b_rate"
    /\ ratesFile' = q.file
    /\ dbCache' = q.cache
    /\ Goto(t, IF RateTruthy(q.rate) THEN "b_usd" ELSE "done")
    /\ UNCHANGED <<wallet, wres, session, wallets, portfoliosFile, last, loc,
                   now, history, upd, req, config, store, sched>>

\* buy_currency: portfolio.get_or_create_wallet("USD") raises AttributeError
BuyUsdWallet(t) ==
    /\ pc[t] = "b_usd"
    /\ "get_or_create_wallet" \notin PortfolioAttrs
    /\ Goto(t, "done")
    /\ UNCHANGED <<wallet, wres, session, wallets, portfoliosFile, ratesFile,
                   dbCache, last, loc, now, history, upd, req, config, store,
                   sched>>

----------------------------------------------------------------------------
(* Parser service (parser_service/) *)

\* data/exchange_rates.json: the records in file order, and the number of
\* add_record calls made so far, which serves as the clock of the timestamps
\* (each call reads datetime.now() later than the one before); isList tells
\* whether the file holds a JSON list, as every file the program writes does
NoHistory == [log |-> <<>>, clock |-> 0, isList |-> TRUE]

\* a history file whose content is the JSON object {}: _read_data returns
\* whatever json.loads gives
NotAList == [log |-> <<>>, clock |-> 0, isList |-> FALSE]

\* HistoryStorage.add_record: max_per_pair=1000
MAX_PER_PAIR == 1000

\* the distinct pairs of a log, in the order of their first record
RECURSIVE PairsOf(_)
PairsOf(log) ==
    IF log = <<>> THEN <<>>
    ELSE LET rest == PairsOf(SubSeq(log, 1, Len(log) - 1))
             p == log[Len(log)].pair
         IN  IF \E i \in 1 .. Len(rest) : rest[i] = p THEN rest ELSE Append(rest, p)

\* the records of one pair, in file order
RecordsOf(log, p) == SelectSeq(log, LAMBDA r : r.pair = p)

\* sorted(records, key=timestamp, reverse=True): a stable sort, newest first
RECURSIVE NewestFirst(_)
NewestFirst(recs) ==
    IF recs = <<>> THEN <<>>
    ELSE LET sorted == NewestFirst(SubSeq(recs, 1, Len(recs) - 1))
             r == recs[Len(recs)]
             before == SelectSeq(sorted, LAMBDA x : x.timestamp >= r.timestamp)
             after == SelectSeq(sorted, LAMBDA x : x.timestamp < r.timestamp)
         IN  before \o <<r>> \o after

FirstN(recs, n) == SubSeq(recs, 1, IF Len(recs) < n THEN Len(recs) ELSE n)

\* HistoryStorage._cleanup_old_records: the log regrouped by pair, each group
\* newest first and cut to max_per_pair records
RECURSIVE Regroup(_, _, _)
Regroup(log, pairs, max_per_pair) ==
    IF pairs = <<>> THEN <<>>
    ELSE FirstN(NewestFirst(RecordsOf(log, pairs[1])), max_per_pair)
         \o Regroup(log, SubSeq(pairs, 2, Len(pairs)), max_per_pair)

cleanup_old_records(log, max_per_pair) == Regroup(log, PairsOf(log), max_per_pair)

\* HistoryStorage.add_record raises: history.append(record) on a content
\* that is no list is an AttributeError, raised before anything is written
add_record_raises(hist) == ~hist.isList

\* HistoryStorage.add_record: the record is stamped with the time of the
\* call, skipped if a record with its id (pair and timestamp) exists, else
\* appended, and the log is cleaned up and written
add_record(hist, pair, rate, source) ==
    LET timestamp == hist.clock + 1
        record == [pair |-> pair, rate |-> rate, source |-> source,
                   timestamp |-> timestamp]
    IN  IF add_record_raises(hist)
        THEN [hist EXCEPT !.clock = timestamp]
        ELSE IF \E i \in 1 .. Len(hist.log) :
               hist.log[i].pair = pair /\ hist.log[i].timestamp = timestamp
        THEN [hist EXCEPT !.clock = timestamp]
        ELSE [hist EXCEPT !.log = cleanup_old_records(Append(hist.log, record),
                                                      MAX_PER_PAIR),
                          !.clock = timestamp]

\* the pairs a client can emit, in the order its rates dict is walked
EmittedPairs == <<Key("BTC", "USD"), Key("ETH", "USD"), Key("EUR", "USD"),
                  Key("GBP", "USD")>>

\* RatesUpdater._save_to_history: one add_record per pair of the batch; an
\* add_record that raises ends the loop
RECURSIVE save_from(_, _, _, _)
save_from(hist, rates, source, i) ==
    IF i > Len(EmittedPairs) THEN hist
    ELSE IF EmittedPairs[i] \in DOMAIN rates /\ add_record_raises(hist)
    THEN add_record(hist, EmittedPairs[i], rates[EmittedPairs[i]], source)
    ELSE IF EmittedPairs[i] \in DOMAIN rates
    THEN save_from(add_record(hist, EmittedPairs[i], rates[EmittedPairs[i]], source),
                   rates, source, i + 1)
    ELSE save_from(hist, rates, source, i + 1)

save_to_history(hist, rates, source) == save_from(hist, rates, source, 1)

\* the values of a provider payload: a number n/d, nan, a number beyond the
\* float range (json.loads gives inf), a string, or (for CoinGecko) an entry
\* without the "usd" key
Num(n, d) == [kind |-> "num", n |-> n, d |-> d]
NotANumber == [kind |-> "nan", n |-> 0, d |-> 1]
Infinite == [kind |-> "inf", n |-> 1, d |-> 0]
Str == [kind |-> "str", n |-> 0, d |-> 1]
NoUsd == [kind |-> "nousd", n |-> 0, d |-> 1]

\* not (not isinstance(rate, (int, float)) or rate <= 0); nan <= 0 is False
IsUsableRate(v) == v.kind \in {"nan", "inf"} \/ (v.kind = "num" /\ v.n > 0)
\* float(rate)
ToFloat(v) ==
    IF v.kind = "nan" THEN NaN ELSE IF v.kind = "inf" THEN Inf ELSE v.n \div v.d
\* 1.0 / float(rate); 1.0 / inf is 0.0
OneOver(v) == IF v.kind = "nan" THEN NaN ELSE v.d \div v.n

\* ParserConfig: the tracked currencies and the CoinGecko ids;
\* self.config.FIAT_CURRENCIES is read from the configuration of the client
BASE_CURRENCY == "USD"
FIAT_CURRENCIES == config.FIAT_CURRENCIES
CRYPTO_ID_MAP == [id \in {"bitcoin", "ethereum"} |->
                     IF id = "bitcoin" THEN "BTC" ELSE "ETH"]

\* a response as fetch_rates sees it: _make_request raised (ok = FALSE), the
\* body is not the expected JSON object (malformed), or it is
Failed == [ok |-> FALSE, malformed |-> FALSE, result |-> "error", data |-> EmptyMap]
Malformed == [ok |-> TRUE, malformed |-> TRUE, result |-> "error", data |-> EmptyMap]
Payload(result, data) ==
    [ok |-> TRUE, malformed |-> FALSE, result |-> result, data |-> data]

Raises == [raised |-> TRUE, rates |-> EmptyMap]
Returns(rates) == [raised |-> FALSE, rates |-> rates]

\* CoinGeckoClient.fetch_rates: an unknown id, an entry without "usd" and an
\* unusable rate are skipped; the rates collected are returned as they are
CoinGecko_fetch_rates(resp) ==
    IF ~resp.ok \/ resp.malformed THEN Raises
    ELSE LET kept == {id \in DOMAIN resp.data :
                         /\ id \in DOMAIN CRYPTO_ID_MAP
                         /\ resp.data[id].kind # "nousd"
                         /\ IsUsableRate(resp.data[id])}
         IN  Returns([k \in {Key(CRYPTO_ID_MAP[id], BASE_CURRENCY) : id \in kept} |->
                         ToFloat(resp.data[CHOOSE id \in kept :
                                               CRYPTO_ID_MAP[id] = k[1]])])

\* fetch_rates of the fiat client storing the provider's rate as it is given
ExchangeRate_fetch_as_given(resp) ==
    IF ~resp.ok \/ resp.malformed THEN Raises
    ELSE IF resp.result # "success" THEN Raises
    ELSE IF DOMAIN resp.data = {} THEN Raises
    ELSE LET kept == {c \in DOMAIN resp.data :
                         c \in FIAT_CURRENCIES /\ IsUsableRate(resp.data[c])}
         IN  IF kept = {} THEN Raises
             ELSE Returns([k \in {Key(c, BASE_CURRENCY) : c \in kept} |->
                              ToFloat(resp.data[k[1]])])

\* ExchangeRateApiClient.fetch_rates: an error result, an empty rate list and
\* an empty result after filtering raise ApiRequestError
ExchangeRate_fetch_rates(resp) ==
    IF ~resp.ok \/ resp.malformed THEN Raises
    ELSE IF resp.result # "success" THEN Raises
    ELSE IF DOMAIN resp.data = {} THEN Raises
    ELSE LET kept == {c \in DOMAIN resp.data :
                         c \in FIAT_CURRENCIES /\ IsUsableRate(resp.data[c])}
         IN  IF kept = {} THEN Raises
             ELSE Returns([k \in {Key(c, BASE_CURRENCY) : c \in kept} |->
                              OneOver(resp.data[k[1]])])

\* RatesUpdater.clients and get_source_name
Clients == <<"CoinGecko", "ExchangeRate-API">>

fetch_rates(name, resp) ==
    IF name = "CoinGecko" THEN CoinGecko_fetch_rates(resp)
    ELSE ExchangeRate_fetch_rates(resp)

\* source_filter.lower(), for the filter strings used
Lower(s) ==
    IF s = "CoinGecko" THEN "coingecko"
    ELSE IF s = "ExchangeRate-API" THEN "exchangerate-api"
    ELSE s

\* run_update: the source filter lets the client through ("" is no filter);
\* only the two strings compared with are filters, any other string lets
\* every client through
Selected(name, filter) ==
    /\ ~(Lower(filter) = "coingecko" /\ name # "CoinGecko")
    /\ ~(Lower(filter) = "exchangerate" /\ name # "ExchangeRate-API")

NotPolled == [polled |-> FALSE, raised |-> FALSE, rates |-> EmptyMap]

\* all_rates.update(rates)
Merged(a, b) == [k \in (DOMAIN a) \cup (DOMAIN b) |-> IF k \in DOMAIN b THEN b[k] ELSE a[k]]

\* run_update before the loop
StartRun(file, hist) ==
    [file |-> file, history |-> hist, all_rates |-> EmptyMap, errors |-> <<>>,
     by_source |-> EmptyMap, fetched |-> [c \in {} |-> NotPolled]]

\* one pass of the loop that polls nobody once a client has failed
poll_stop_after_error(acc, name, filter, resp) ==
    LET f == fetch_rates(name, resp)
        seen == [polled |-> TRUE, raised |-> f.raised, rates |-> f.rates]
    IN  IF ~Selected(name, filter) \/ Len(acc.errors) > 0
        THEN [acc EXCEPT !.fetched = SetWallet(acc.fetched, name, NotPolled)]
        ELSE IF f.raised
        THEN [acc EXCEPT !.fetched = SetWallet(acc.fetched, name, seen),
                         !.errors = Append(acc.errors, name),
                         !.by_source = SetWallet(acc.by_source, name, 0)]
        ELSE IF DOMAIN f.rates = {}
        THEN [acc EXCEPT !.fetched = SetWallet(acc.fetched, name, seen),
                         !.by_source = SetWallet(acc.by_source, name, 0)]
        ELSE IF add_record_raises(acc.history)
        THEN [acc EXCEPT !.fetched = SetWallet(acc.fetched, name, seen),
                         !.file = update_rates(acc.file, f.rates, name),
                         !.history = save_to_history(acc.history, f.rates, name),
                         !.errors = Append(acc.errors, name),
                         !.by_source = SetWallet(acc.by_source, name, 0)]
        ELSE [acc EXCEPT !.fetched = SetWallet(acc.fetched, name, seen),
                         !.file = update_rates(acc.file, f.rates, name),
                         !.history = save_to_history(acc.history, f.rates, name),
                         !.all_rates = Merged(acc.all_rates, f.rates),
                         !.by_source = SetWallet(acc.by_source, name,
                                                 Cardinality(DOMAIN f.rates))]

\* one pass of the loop with an empty result recorded as an error
poll_empty_is_error(acc, name, filter, resp) ==
    LET f == fetch_rates(name, resp)
        seen == [polled |-> TRUE, raised |-> f.raised, rates |-> f.rates]
    IN  IF ~Selected(name, filter)
        THEN [acc EXCEPT !.fetched = SetWallet(acc.fetched, name, NotPolled)]
        ELSE IF f.raised \/ DOMAIN f.rates = {}
        THEN [acc EXCEPT !.fetched = SetWallet(acc.fetched, name, seen),
                         !.errors = Append(acc.errors, name),
                         !.by_source = SetWallet(acc.by_source, name, 0)]
        ELSE IF add_record_raises(acc.history)
        THEN [acc EXCEPT !.fetched = SetWallet(acc.fetched, name, seen),
                         !.file = update_rates(acc.file, f.rates, name),
                         !.history = save_to_history(acc.history, f.rates, name),
                         !.errors = Append(acc.errors, name),
                         !.by_source = SetWallet(acc.by_source, name, 0)]
        ELSE [acc EXCEPT !.fetched = SetWallet(acc.fetched, name, seen),
                         !.file = update_rates(acc.file, f.rates, name),
                         !.history = save_to_history(acc.history, f.rates, name),
                         !.all_rates = Merged(acc.all_rates, f.rates),
                         !.by_source = SetWallet(acc.by_source, name,
                                                 Cardinality(DOMAIN f.rates))]

\* one pass of the loop without the history
poll_no_history(acc, name, filter, resp) ==
    LET f == fetch_rates(name, resp)
        seen == [polled |-> TRUE, raised |-> f.raised, rates |-> f.rates]
    IN  IF ~Selected(name, filter)
        THEN [acc EXCEPT !.fetched = SetWallet(acc.fetched, name, NotPolled)]
        ELSE IF f.raised
        THEN [acc EXCEPT !.fetched = SetWallet(acc.fetched, name, seen),
                         !.errors = Append(acc.errors, name),
                         !.by_source = SetWallet(acc.by_source, name, 0)]
        ELSE IF DOMAIN f.rates = {}
        THEN [acc EXCEPT !.fetched = SetWallet(acc.fetched, name, seen),
                         !.by_source = SetWallet(acc.by_source, name, 0)]
        ELSE [acc EXCEPT !.fetched = SetWallet(acc.fetched, name, seen),
                         !.file = update_rates(acc.file, f.rates, name),
                         !.all_rates = Merged(acc.all_rates, f.rates),
                         !.by_source = SetWallet(acc.by_source, name,
                                                 Cardinality(DOMAIN f.rates))]

\* run_update: one pass of the loop over the clients.  A client the filter
\* excludes is skipped; a client that raises adds an error and counts 0; a
\* client that returns nothing counts 0; the rates of any other client are
\* stored, written to the history, merged into all_rates and counted.  If
\* _save_to_history raises, update_rates has stored the rates already and
\* `except Exception` adds an error and counts 0
poll(acc, name, filter, resp) ==
    LET f == fetch_rates(name, resp)
        seen == [polled |-> TRUE, raised |-> f.raised, rates |-> f.rates]
    IN  IF ~Selected(name, filter)
        THEN [acc EXCEPT !.fetched = SetWallet(acc.fetched, name, NotPolled)]
        ELSE IF f.raised
        THEN [acc EXCEPT !.fetched = SetWallet(acc.fetched, name, seen),
                         !.errors = Append(acc.errors, name),
                         !.by_source = SetWallet(acc.by_source, name, 0)]
        ELSE IF DOMAIN f.rates = {}
        THEN [acc EXCEPT !.fetched = SetWallet(acc.fetched, name, seen),
                         !.by_source = SetWallet(acc.by_source, name, 0)]
        ELSE IF add_record_raises(acc.history)
        THEN [acc EXCEPT !.fetched = SetWallet(acc.fetched, name, seen),
                         !.file = update_rates(acc.file, f.rates, name),
                         !.history = save_to_history(acc.history, f.rates, name),
                         !.errors = Append(acc.errors, name),
                         !.by_source = SetWallet(acc.by_source, name, 0)]
        ELSE [acc EXCEPT !.fetched = SetWallet(acc.fetched, name, seen),
                         !.file = update_rates(acc.file, f.rates, name),
                         !.history = save_to_history(acc.history, f.rates, name),
                         !.all_rates = Merged(acc.all_rates, f.rates),
                         !.by_source = SetWallet(acc.by_source, name,
                                                 Cardinality(DOMAIN f.rates))]

\* run_update(source_filter): the loop over the clients and the report
RECURSIVE poll_from(_, _, _, _)
poll_from(acc, i, filter, resps) ==
    IF i > Len(Clients) THEN acc
    ELSE poll_from(poll(acc, Clients[i], filter, resps[i]), i + 1, filter, resps)

run_update(file, hist, filter, resps) ==
    LET end == poll_from(StartRun(file, hist), 1, filter, resps)
    IN  [file |-> end.file, history |-> end.history, fetched |-> end.fetched,
         report |-> [success |-> Len(end.errors) = 0,
                     total_rates |-> Cardinality(DOMAIN end.all_rates),
                     by_source |-> end.by_source,
                     errors |-> end.errors]]

NoRun == [runs |-> 0, filter |-> "", fetched |-> [c \in {} |-> NotPolled],
          report |-> [success |-> TRUE, total_rates |-> 0, by_source |-> EmptyMap,
                      errors |-> <<>>],
          preFile |-> NoFile, preHistory |-> NoHistory, resps |-> <<Failed, Failed>>]

\* one call of run_update(filter), the providers answering with resps
RunUpdate(filter, resps) ==
    LET r == run_update(ratesFile, history, filter, resps) IN
    /\ upd.runs < MaxRuns
    /\ ratesFile' = r.file
    /\ history' = r.history
    /\ upd' = [runs |-> upd.runs + 1, filter |-> filter, fetched |-> r.fetched,
               report |-> r.report, preFile |-> ratesFile, preHistory |-> history,
               resps |-> resps]
    /\ UNCHANGED <<wallet, wres, session, wallets, portfoliosFile, dbCache,
                   last, pc, loc, now, req, config, store, sched>>

\* ParserConfig.MAX_RETRIES
MAX_RETRIES == 3

\* what one session.get can end in: a response with a status code, or an
\* exception of requests
Outcomes == {"200", "429", "401", "500", "Timeout", "ConnectionError",
             "RequestException"}
\* the outcomes _make_request records in last_exception and retries after
Transient == {"Timeout", "ConnectionError", "RequestException"}

NoRequest == [pc |-> "idle", retries |-> 0, attempt |-> 0, last_exception |-> "none",
              result |-> "none", trace |-> <<>>, sleeps |-> 0]

\* _make_request up to the first attempt: range(1, retries + 1) is empty
\* for retries < 1, and the loop is left for the final raise
begin_request(retries) ==
    IF retries >= 1
    THEN [NoRequest EXCEPT !.pc = "try", !.retries = retries, !.attempt = 1]
    ELSE [NoRequest EXCEPT !.pc = "done", !.retries = retries,
                           !.result = "ApiRequestError"]

\* one attempt with one attempt more than retries allows
after_attempt_one_more(r, outcome) ==
    LET t == [r EXCEPT !.trace = Append(r.trace, outcome)] IN
    IF outcome = "200" THEN [t EXCEPT !.pc = "done", !.result = "response"]
    ELSE IF outcome \notin Transient
    THEN [t EXCEPT !.pc = "done", !.result = "ApiRequestError"]
    ELSE IF r.attempt <= r.retries
    THEN [t EXCEPT !.pc = "sleep", !.last_exception = outcome]
    ELSE [t EXCEPT !.pc = "done", !.last_exception = outcome,
                   !.result = "ApiRequestError"]

\* one attempt with a 429 response retried like a timeout
after_attempt_retry_429(r, outcome) ==
    LET t == [r EXCEPT !.trace = Append(r.trace, outcome)] IN
    IF outcome = "200" THEN [t EXCEPT !.pc = "done", !.result = "response"]
    ELSE IF outcome \notin Transient \cup {"429"}
    THEN [t EXCEPT !.pc = "done", !.result = "ApiRequestError"]
    ELSE IF r.attempt < r.retries
    THEN [t EXCEPT !.pc = "sleep", !.last_exception = outcome]
    ELSE [t EXCEPT !.pc = "done", !.last_exception = outcome,
                   !.result = "ApiRequestError"]

\* _make_request: one pass of the loop body.  A 200 response is returned; any
\* other response raises ApiRequestError, which `except ApiRequestError:
\* raise` lets through; an exception of requests is kept in last_exception,
\* then the loop sleeps if attempts remain and else ends in the final raise
after_attempt(r, outcome) ==
    LET t == [r EXCEPT !.trace = Append(r.trace, outcome)] IN
    IF outcome = "200" THEN [t EXCEPT !.pc = "done", !.result = "response"]
    ELSE IF outcome \notin Transient
    THEN [t EXCEPT !.pc = "done", !.result = "ApiRequestError"]
    ELSE IF r.attempt < r.retries
    THEN [t EXCEPT !.pc = "sleep", !.last_exception = outcome]
    ELSE [t EXCEPT !.pc = "done", !.last_exception = outcome,
                   !.result = "ApiRequestError"]

\* _make_request(url, retries) is called
MakeRequest(retries) ==
    /\ req.pc \in {"idle", "done"}
    /\ req' = begin_request(retries)
    /\ UNCHANGED <<wallet, wres, session, wallets, portfoliosFile, ratesFile,
                   dbCache, last, pc, loc, now, history, upd, config, store,
                   sched>>

\* self.session.get(url, timeout=REQUEST_TIMEOUT) ends with the outcome
Attempt(outcome) ==
    /\ req.pc = "try"
    /\ req' = after_attempt(req, outcome)
    /\ UNCHANGED <<wallet, wres, session, wallets, portfoliosFile, ratesFile,
                   dbCache, last, pc, loc, now, history, upd, config, store,
                   sched>>

\* time.sleep(RETRY_DELAY) returns and the next attempt begins
Sleep ==
    /\ req.pc = "sleep"
    /\ req' = [req EXCEPT !.pc = "try", !.attempt = req.attempt + 1,
                          !.sleeps = req.sleeps + 1]
    /\ UNCHANGED <<wallet, wres, session, wallets, portfoliosFile, ratesFile,
                   dbCache, last, pc, loc, now, history, upd, config, store,
                   sched>>

----------------------------------------------------------------------------
(* rates.json under concurrent use (parser_service/storage.py).  Writers run
   refresh cycles, each a sequence of update_rates calls, each through its
   own RatesStorage object and so under its own lock; a reader reads the
   file through yet another object.  The file system is modelled by the two
   names rates.json and rates.tmp and the inodes they point to: a writer's
   open file refers to an inode, not to a name. *)

Writers == {1, 2}
Inodes == {1, 2, 3}
StoreKeys == {Key("BTC", "USD"), Key("EUR", "USD")}

\* the content of an inode: a complete JSON document, or one cut short
Complete(pairs) == [torn |-> FALSE, pairs |-> pairs]
Torn == [torn |-> TRUE, pairs |-> EmptyMap]

\* the pairs of the file before any cycle: each written by cycle 0
OldPairs == [k \in StoreKeys |-> 0]

\* the update_rates calls of one cycle: the pairs of each batch
Plans == {<<{Key("BTC", "USD")}, {Key("EUR", "USD")}>>,
          <<{Key("BTC", "USD")}>>, <<{Key("EUR", "USD")}>>}

IdleWriter == [pc |-> "idle", fd |-> 0, data |-> EmptyMap, plan |-> <<>>,
               idx |-> 0, cycle |-> 0]

NoRead == [valid |-> FALSE, torn |-> FALSE, pairs |-> EmptyMap,
           before |-> EmptyMap, after |-> EmptyMap, running |-> {}]

\* RatesStorage.__init__ has run: rates.json exists, there is no rates.tmp
NoStore ==
    [file |-> 1, tmp |-> 0,
     inodes |-> [i \in Inodes |-> IF i = 1 THEN Complete(OldPairs) ELSE Torn],
     w |-> [x \in Writers |-> IdleWriter],
     lock |-> [x \in Writers |-> FALSE],
     cycles |-> 0, written |-> {}, raised |-> FALSE,
     committed |-> OldPairs, seen |-> NoRead]

\* _read_data: the document of rates.json; one that cannot be parsed is
\* read as an empty store
read_data(st) ==
    IF st.inodes[st.file].torn THEN EmptyMap ELSE st.inodes[st.file].pairs

\* the batch of the update_rates call the writer is in
Batch(st, x) == st.w[x].plan[st.w[x].idx]

\* update_rates: the pairs read with the batch written over them, each pair
\* of the batch marked with the cycle that wrote it
Target(st, x) ==
    [k \in (DOMAIN st.w[x].data) \cup Batch(st, x) |->
        IF k \in Batch(st, x) THEN st.w[x].cycle ELSE st.w[x].data[k]]

\* the writer is between the read and the replace of update_rates
InSection(st, x) == st.w[x].pc \in {"open", "dump", "replace"}

\* an inode no name and no open file refers to
FreeInode(st) ==
    CHOOSE i \in Inodes :
        i # st.file /\ i # st.tmp /\ \A x \in Writers : st.w[x].fd # i

\* inodes nothing refers to hold nothing
Collected(st) ==
    [st EXCEPT !.inodes =
        [i \in Inodes |->
            IF i = st.file \/ i = st.tmp \/ \E x \in Writers : st.w[x].fd = i
            THEN st.inodes[i] ELSE Torn]]

\* a write that opens rates.json itself
open_in_place(st, x) ==
    [st EXCEPT !.inodes[st.file] = Torn, !.w[x].fd = st.file, !.w[x].pc = "dump"]

\* open(temp_path, 'w'): rates.tmp is created, or truncated if it exists
open_temp(st, x) ==
    IF st.tmp # 0
    THEN [st EXCEPT !.inodes[st.tmp] = Torn, !.w[x].fd = st.tmp, !.w[x].pc = "dump"]
    ELSE LET i == FreeInode(st) IN
         [st EXCEPT !.tmp = i, !.inodes[i] = Torn, !.w[x].fd = i, !.w[x].pc = "dump"]

\* the writer leaves update_rates: on to the next call of its cycle, or idle
Leave(st, x) ==
    IF st.w[x].idx < Len(st.w[x].plan)
    THEN [st EXCEPT !.w[x].pc = "begin", !.w[x].idx = st.w[x].idx + 1,
                    !.w[x].data = EmptyMap, !.lock[x] = FALSE]
    ELSE [st EXCEPT !.w[x] = IdleWriter, !.lock[x] = FALSE]

\* run_update begins: the cycle will make the update_rates calls of plan
StartCycle(x, plan) ==
    /\ store.w[x].pc = "idle"
    /\ store.cycles < MaxCycles
    /\ store' = [store EXCEPT !.cycles = store.cycles + 1,
                              !.w[x] = [IdleWriter EXCEPT !.pc = "begin",
                                                          !.plan = plan, !.idx = 1,
                                                          !.cycle = store.cycles + 1]]
    /\ UNCHANGED <<wallet, wres, session, wallets, portfoliosFile, ratesFile,
                   dbCache, last, pc, loc, now, history, upd, req, config,
                   sched>>

\* update_rates: the lock of the writer's own object is taken and the file
\* is read
ReadData(x) ==
    /\ store.w[x].pc = "begin"
    /\ ~store.lock[x]
    /\ store' = [store EXCEPT !.lock[x] = TRUE, !.w[x].pc = "open",
                              !.w[x].data = read_data(store)]
    /\ UNCHANGED <<wallet, wres, session, wallets, portfoliosFile, ratesFile,
                   dbCache, last, pc, loc, now, history, upd, req, config,
                   sched>>

\* _write_data: the temporary file is opened for writing
OpenTemp(x) ==
    /\ store.w[x].pc = "open"
    /\ store' = open_temp(store, x)
    /\ UNCHANGED <<wallet, wres, session, wallets, portfoliosFile, ratesFile,
                   dbCache, last, pc, loc, now, history, upd, req, config,
                   sched>>

\* _write_data: json.dump and close.  Written into an inode another writer
\* has written since it was truncated, the document may come out cut
Dump(x) ==
    /\ store.w[x].pc = "dump"
    /\ \E content \in {Complete(Target(store, x)), Torn} :
          /\ content = Torn => ~store.inodes[store.w[x].fd].torn
          /\ store' = Collected([store EXCEPT !.inodes[store.w[x].fd] = content,
                                              !.w[x].fd = 0,
                                              !.w[x].pc = "replace"])
    /\ UNCHANGED <<wallet, wres, session, wallets, portfoliosFile, ratesFile,
                   dbCache, last, pc, loc, now, history, upd, req, config,
                   sched>>

\* _write_data: temp_path.replace(file_path), which raises when rates.tmp
\* is gone; update_rates returns or raises and the lock is released
Replace(x) ==
    /\ store.w[x].pc = "replace"
    /\ store' =
          IF store.tmp = 0
          THEN Leave([store EXCEPT !.raised = TRUE], x)
          ELSE Collected(Leave([store EXCEPT
                   !.file = store.tmp, !.tmp = 0,
                   !.committed = IF store.inodes[store.tmp].torn THEN EmptyMap
                                 ELSE store.inodes[store.tmp].pairs,
                   !.written = store.written \cup Batch(store, x)], x))
    /\ UNCHANGED <<wallet, wres, session, wallets, portfoliosFile, ratesFile,
                   dbCache, last, pc, loc, now, history, upd, req, config,
                   sched>>

\* get_all_rates / get_rate through the reader's own RatesStorage object
Read ==
    /\ store' = [store EXCEPT !.seen =
          [valid |-> TRUE,
           torn |-> store.inodes[store.file].torn,
           pairs |-> read_data(store),
           before |-> store.committed,
           after |-> IF \E x \in Writers : InSection(store, x)
                     THEN Target(store, CHOOSE x \in Writers : InSection(store, x))
                     ELSE store.committed,
           running |-> {[id |-> store.w[x].cycle,
                         keys |-> UNION {store.w[x].plan[i] :
                                           i \in 1 .. Len(store.w[x].plan)}] :
                           x \in {y \in Writers : store.w[y].pc # "idle"}}]]
    /\ UNCHANGED <<wallet, wres, session, wallets, portfoliosFile, ratesFile,
                   dbCache, last, pc, loc, now, history, upd, req, config,
                   sched>>

----------------------------------------------------------------------------
(* RatesScheduler (parser_service/scheduler.py).  start() and stop() are
   called from one controlling thread; each start() creates a worker thread
   running _run_loop.  A worker is at the loop test, inside run_update, in
   the except clause of the loop body, or in
   _stop_event.wait(interval_seconds). *)

Workers == 1 .. MaxStarts

NoWorker == [pc |-> "none", left |-> 0, cycles |-> 0]

\* RatesScheduler.__init__: _thread None, the event clear, _running False
NoScheduler ==
    [running |-> FALSE, event |-> FALSE, thread |-> 0, main |-> "idle",
     starts |-> 0, timedOut |-> FALSE, workers |-> [w \in Workers |-> NoWorker]]

\* Thread.is_alive()
Alive(w) == sched.workers[w].pc \in {"test", "run", "except", "wait"}

\* start(): nothing when _running; else _running = True, the event is
\* cleared and a new thread is created and started
Start ==
    /\ sched.main = "idle"
    /\ sched.starts < MaxStarts
    /\ sched' =
          IF sched.running THEN sched
          ELSE [sched EXCEPT !.running = TRUE, !.event = FALSE,
                             !.thread = sched.starts + 1,
                             !.starts = sched.starts + 1,
                             !.workers[sched.starts + 1] =
                                 [pc |-> "test", left |-> 0, cycles |-> 0]]
    /\ UNCHANGED <<wallet, wres, session, wallets, portfoliosFile, ratesFile,
                   dbCache, last, pc, loc, now, history, upd, req, config,
                   store>>

\* stop() up to the join: nothing when not _running; else the event is set
\* and the thread, if alive, is joined
Stop_ ==
    /\ sched.main = "idle"
    /\ sched.running
    /\ sched' =
          IF sched.thread # 0 /\ Alive(sched.thread)
          THEN [sched EXCEPT !.event = TRUE, !.main = "join"]
          ELSE [sched EXCEPT !.event = TRUE, !.running = FALSE]
    /\ UNCHANGED <<wallet, wres, session, wallets, portfoliosFile, ratesFile,
                   dbCache, last, pc, loc, now, history, upd, req, config,
                   store>>

\* join(timeout=5) returns, the thread having ended or, while run_update is
\* in flight, the timeout having passed; then _running = False
JoinReturns ==
    /\ sched.main = "join"
    /\ ~Alive(sched.thread) \/ sched.workers[sched.thread].pc = "run"
    /\ sched' = [sched EXCEPT !.main = "idle", !.running = FALSE,
                              !.timedOut = Alive(sched.thread)]
    /\ UNCHANGED <<wallet, wres, session, wallets, portfoliosFile, ratesFile,
                   dbCache, last, pc, loc, now, history, upd, req, config,
                   store>>

\* a loop test that never ends the loop
keeps_running_always(event) == TRUE

\* while not self._stop_event.is_set()
keeps_running(event) == ~event

\* the loop test of _run_loop: into run_update, or out of the loop
LoopTest(w) ==
    /\ sched.workers[w].pc = "test"
    /\ sched' = [sched EXCEPT !.workers[w].pc =
                     IF keeps_running(sched.event) THEN "run" ELSE "done"]
    /\ UNCHANGED <<wallet, wres, session, wallets, portfoliosFile, ratesFile,
                   dbCache, last, pc, loc, now, history, upd, req, config,
                   store>>

\* how a call of run_update inside the loop ends: a report with success
\* true, a report with errors, or an exception
CycleOutcomes == {"ok", "errors", "raised"}

\* a loop body without the except clause: an exception ends the thread
after_cycle_uncaught(outcome) == IF outcome = "raised" THEN "done" ELSE "wait"

\* the try statement of _run_loop: either report is logged and the wait
\* follows; an exception leads into `except Exception`
after_cycle(outcome) == IF outcome = "raised" THEN "except" ELSE "wait"

\* self.updater.run_update() returns or raises
CycleEnds(w) ==
    /\ sched.workers[w].pc = "run"
    /\ \E outcome \in CycleOutcomes :
          sched' = [sched EXCEPT !.workers[w] =
                       [pc |-> after_cycle(outcome), left |-> MaxSleep,
                        cycles |-> IF sched.workers[w].cycles < MaxCycles
                                   THEN sched.workers[w].cycles + 1
                                   ELSE sched.workers[w].cycles]]
    /\ UNCHANGED <<wallet, wres, session, wallets, portfoliosFile, ratesFile,
                   dbCache, last, pc, loc, now, history, upd, req, config,
                   store>>

\* the except clause: the exception is logged and the wait follows
Caught(w) ==
    /\ sched.workers[w].pc = "except"
    /\ sched' = [sched EXCEPT !.workers[w].pc = "wait"]
    /\ UNCHANGED <<wallet, wres, session, wallets, portfoliosFile, ratesFile,
                   dbCache, last, pc, loc, now, history, upd, req, config,
                   store>>

\* _stop_event.wait(interval_seconds): time passes while the event is clear
Waiting(w) ==
    /\ sched.workers[w].pc = "wait"
    /\ ~sched.event
    /\ sched.workers[w].left > 0
    /\ sched' = [sched EXCEPT !.workers[w].left = sched.workers[w].left - 1]
    /\ UNCHANGED <<wallet, wres, session, wallets, portfoliosFile, ratesFile,
                   dbCache, last, pc, loc, now, history, upd, req, config,
                   store>>

\* _stop_event.wait returns: the event is set or the interval has passed
WaitReturns(w) ==
    /\ sched.workers[w].pc = "wait"
    /\ sched.event \/ sched.workers[w].left = 0
    /\ sched' = [sched EXCEPT !.workers[w].pc = "test"]
    /\ UNCHANGED <<wallet, wres, session, wallets, portfoliosFile, ratesFile,
                   dbCache, last, pc, loc, now, history, upd, req, config,
                   store>>

----------------------------------------------------------------------------
(* The history limit of the configuration (parser_service/config.py) *)

\* ParserConfig.MAX_HISTORY_PER_PAIR
MAX_HISTORY_PER_PAIR == 1000

\* get_parser_config(): the ParserConfig with its defaults
DefaultConfig == [MAX_HISTORY_PER_PAIR |-> MAX_HISTORY_PER_PAIR,
                  FIAT_CURRENCIES |-> {"EUR", "GBP"}]

\* ParserConfig(MAX_HISTORY_PER_PAIR=n): the default limit or a smaller one
Configs ==
    {[DefaultConfig EXCEPT !.MAX_HISTORY_PER_PAIR = n] :
        n \in {MaxKept, MAX_HISTORY_PER_PAIR}}

\* one call of history_storage.add_record by an updater built with config
AddRecord(pair, rate) ==
    /\ history.clock < MaxRecords
    /\ history' = add_record(history, pair, rate, "CoinGecko")
    /\ UNCHANGED <<wallet, wres, session, wallets, portfoliosFile, ratesFile,
                   dbCache, last, pc, loc, now, upd, req, config, store, sched>>

----------------------------------------------------------------------------
(* Specifications *)

Threads == {1, 2}
IdlePc == [t \in Threads |-> "idle"]
IdleLoc == [t \in Threads |-> [op |-> "none", code |-> "USD", amount |-> 0, read |-> 0]]

\* the wallets a stored portfolio record may hold
PortfolioRecords == UNION {[D -> 0 .. MaxStored] : D \in SUBSET {"USD", "BTC"}}

\* contents of data/rates.json the ledger is run against
RatesInputs ==
    {NoFile, File(EmptyMap, EmptyMap)}
    \cup {File(EmptyMap, Single(Key("BTC", "USD"), r)) : r \in 0 .. MaxRate}
    \cup {File(EmptyMap, Single(Key("USD", "BTC"), r)) : r \in 0 .. MaxRate}
    \cup {File(Single(Key("BTC", "USD"), r), EmptyMap) : r \in 0 .. MaxRate}

\* the ledger: a registered user, not yet logged in
Init ==
    /\ wallet = 0
    /\ wres = NoCall
    /\ session = FALSE
    /\ wallets = EmptyMap
    /\ portfoliosFile \in PortfolioRecords
    /\ ratesFile \in RatesInputs
    /\ dbCache = NotLoaded
    /\ last = NoOp
    /\ pc = IdlePc
    /\ loc = IdleLoc
    /\ now = 0
    /\ history = NoHistory
    /\ upd = NoRun
    /\ req = NoRequest
    /\ config = DefaultConfig
    /\ store = NoStore
    /\ sched = NoScheduler

Next ==
    \/ Login
    \/ \E code \in LedgerCodes, amount \in LedgerAmounts : BuyCurrency(code, amount)
    \/ \E code \in LedgerCodes, amount \in LedgerAmounts : SellCurrency(code, amount)

Spec == Init /\ [][Next]_vars

\* one Wallet object with a non-negative balance, called directly
InitWallet ==
    /\ wallet \in Balances
    /\ wres = NoCall
    /\ session = FALSE
    /\ wallets = EmptyMap
    /\ portfoliosFile = EmptyMap
    /\ ratesFile = NoFile
    /\ dbCache = NotLoaded
    /\ last = NoOp
    /\ pc = IdlePc
    /\ loc = IdleLoc
    /\ now = 0
    /\ history = NoHistory
    /\ upd = NoRun
    /\ req = NoRequest
    /\ config = DefaultConfig
    /\ store = NoStore
    /\ sched = NoScheduler

NextWallet ==
    \/ \E a \in Amounts : Deposit(a)
    \/ \E a \in Amounts : Withdraw(a)

SpecWallet == InitWallet /\ [][NextWallet]_vars

\* the rate store: queries and updates
MapsOver(keys, vals) == UNION {[D -> vals] : D \in SUBSET keys}

\* the pairs the providers deliver, all priced in USD
ProviderKeys == {Key("BTC", "USD"), Key("EUR", "USD")}
Batches == MapsOver(ProviderKeys, {1, MaxRate}) \ {EmptyMap}

RatesInitial ==
    {NoFile}
    \cup {File(top, pairs) :
            top \in MapsOver({Key("BTC", "USD")}, 0 .. MaxRate),
            pairs \in MapsOver({Key("BTC", "USD"), Key("USD", "BTC")}, 0 .. MaxRate)}

InitRates ==
    /\ wallet = 0
    /\ wres = NoCall
    /\ session = FALSE
    /\ wallets = EmptyMap
    /\ portfoliosFile = EmptyMap
    /\ ratesFile \in RatesInitial
    /\ dbCache = NotLoaded
    /\ last = NoOp
    /\ pc = IdlePc
    /\ loc = IdleLoc
    /\ now = 0
    /\ history = NoHistory
    /\ upd = NoRun
    /\ req = NoRequest
    /\ config = DefaultConfig
    /\ store = NoStore
    /\ sched = NoScheduler

NextRates ==
    \/ \E from \in Codes, to \in Codes : GetExchangeRate(from, to)
    \/ \E from \in Registry, to \in Registry : GetRateWithTtl(from, to)
    \/ \E rates \in Batches : UpdateRates(rates)

SpecRates == InitRates /\ [][NextRates]_vars

\* the rate store as time passes
InitTtl ==
    /\ wallet = 0
    /\ wres = NoCall
    /\ session = FALSE
    /\ wallets = EmptyMap
    /\ portfoliosFile = EmptyMap
    /\ ratesFile \in {File(top, pairs) :
                        top \in MapsOver({Key("BTC", "USD")}, 1 .. MaxRate),
                        pairs \in MapsOver({Key("BTC", "USD"), Key("USD", "BTC")},
                                           1 .. MaxRate)}
    /\ dbCache = NotLoaded
    /\ last = NoOp
    /\ pc = IdlePc
    /\ loc = IdleLoc
    /\ now = 0
    /\ history = NoHistory
    /\ upd = NoRun
    /\ req = NoRequest
    /\ config = DefaultConfig
    /\ store = NoStore
    /\ sched = NoScheduler

\* the batches stored while time passes: one pair, and two pairs at once
TtlBatches ==
    {Single(Key("BTC", "USD"), MaxRate),
     [k \in {Key("BTC", "USD"), Key("ETH", "USD")} |->
         IF k = Key("BTC", "USD") THEN 1 ELSE MaxRate]}

NextTtl ==
    \/ Tick
    \/ \E from \in {"BTC", "USD"}, to \in {"BTC", "USD"} : GetExchangeRate(from, to)
    \/ \E from \in {"BTC", "USD"}, to \in {"BTC", "USD"} : GetRateWithTtl(from, to)
    \/ \E rates \in TtlBatches : UpdateRates(rates)

SpecTtl == InitTtl /\ [][NextTtl]_vars

\* one API client making requests; session.get returns or raises within
\* REQUEST_TIMEOUT and time.sleep returns after RETRY_DELAY
NextRequest ==
    \/ \E retries \in 0 .. MAX_RETRIES : MakeRequest(retries)
    \/ \E outcome \in Outcomes : Attempt(outcome)
    \/ Sleep

\* the answers of the two providers
CoinGeckoResponses ==
    {Failed, Malformed, Payload("", EmptyMap),
     Payload("", Single("bitcoin", Num(1, 1))),
     Payload("", Single("bitcoin", Num(0, 1))),
     Payload("", Single("bitcoin", Str)),
     Payload("", Single("bitcoin", NotANumber)),
     Payload("", Single("bitcoin", NoUsd)),
     Payload("", Single("dogecoin", Num(1, 1))),
     Payload("", [id \in {"bitcoin", "ethereum"} |->
                    IF id = "bitcoin" THEN Num(1, 1) ELSE Num(MaxRate, 1)])}

ExchangeRateResponses ==
    {Failed, Malformed, Payload("error", EmptyMap), Payload("success", EmptyMap),
     Payload("success", Single("EUR", Num(1, 1))),
     Payload("success", Single("EUR", Num(0, 1))),
     Payload("success", Single("EUR", Str)),
     Payload("success", Single("EUR", Num(0 - 1, 1))),
     Payload("success", Single("EUR", Infinite)),
     Payload("success", Single("USD", Str)),
     Payload("success", Single("USD", Num(1, 1))),
     Payload("success", [c \in {"EUR", "USD"} |->
                           IF c = "EUR" THEN Num(1, MaxRate) ELSE Num(1, 1)])}

Filters == {"", "coingecko", "exchangerate"}

\* the update coordinator, run by hand
NextUpdate ==
    \E filter \in Filters, cg \in CoinGeckoResponses, er \in ExchangeRateResponses :
        RunUpdate(filter, <<cg, er>>)

\* the history an earlier run has left: one record of BTC_USD
SeededHistory == add_record(NoHistory, Key("BTC", "USD"), MaxRate, "CoinGecko")

InitUpdate ==
    /\ wallet = 0
    /\ wres = NoCall
    /\ session = FALSE
    /\ wallets = EmptyMap
    /\ portfoliosFile = EmptyMap
    /\ ratesFile \in {NoFile, File(EmptyMap, Single(Key("BTC", "USD"), MaxRate))}
    /\ dbCache = NotLoaded
    /\ last = NoOp
    /\ pc = IdlePc
    /\ loc = IdleLoc
    /\ now = 0
    /\ history \in {NoHistory, SeededHistory}
    /\ upd = NoRun
    /\ req = NoRequest
    /\ config = DefaultConfig
    /\ store = NoStore
    /\ sched = NoScheduler

SpecUpdate == InitUpdate /\ [][NextUpdate]_vars

\* ParserConfig(FIAT_CURRENCIES=("EUR", "BTC")): a ticker tracked by both
\* clients
OverlapConfig == [DefaultConfig EXCEPT !.FIAT_CURRENCIES = {"EUR", "BTC"}]

\* the source filters given to run_update: none, the two the code compares
\* with, the two source names and the name of no source
SourceFilters == Filters \cup {"CoinGecko", "ExchangeRate-API", "binance"}

CoinGeckoAnswers ==
    {Failed, Payload("", EmptyMap),
     Payload("", Single("bitcoin", Num(1, 1))),
     Payload("", [id \in {"bitcoin", "ethereum"} |->
                    IF id = "bitcoin" THEN Num(1, 1) ELSE Num(MaxRate, 1)])}

ExchangeRateAnswers ==
    {Failed,
     Payload("success", Single("EUR", Num(1, 1))),
     Payload("success", Single("BTC", Num(1, 1))),
     Payload("success", [c \in {"EUR", "BTC"} |->
                           IF c = "EUR" THEN Num(1, MaxRate) ELSE Num(1, 1)])}

\* an updater built with either configuration over a history file that is
\* empty, holds a record, or is no list
InitCoordinator ==
    /\ wallet = 0
    /\ wres = NoCall
    /\ session = FALSE
    /\ wallets = EmptyMap
    /\ portfoliosFile = EmptyMap
    /\ ratesFile \in {NoFile, File(EmptyMap, Single(Key("BTC", "USD"), MaxRate))}
    /\ dbCache = NotLoaded
    /\ last = NoOp
    /\ pc = IdlePc
    /\ loc = IdleLoc
    /\ now = 0
    /\ history \in {NoHistory, SeededHistory, NotAList}
    /\ upd = NoRun
    /\ req = NoRequest
    /\ config \in {DefaultConfig, OverlapConfig}
    /\ store = NoStore
    /\ sched = NoScheduler

NextCoordinator ==
    \E filter \in SourceFilters, cg \in CoinGeckoAnswers, er \in ExchangeRateAnswers :
        RunUpdate(filter, <<cg, er>>)

SpecCoordinator == InitCoordinator /\ [][NextCoordinator]_vars

\* an updater built with a configuration, its history file empty
InitHistory ==
    /\ wallet = 0
    /\ wres = NoCall
    /\ session = FALSE
    /\ wallets = EmptyMap
    /\ portfoliosFile = EmptyMap
    /\ ratesFile = NoFile
    /\ dbCache = NotLoaded
    /\ last = NoOp
    /\ pc = IdlePc
    /\ loc = IdleLoc
    /\ now = 0
    /\ history = NoHistory
    /\ upd = NoRun
    /\ req = NoRequest
    /\ config \in Configs
    /\ store = NoStore
    /\ sched = NoScheduler

NextHistory ==
    \E pair \in {Key("BTC", "USD"), Key("EUR", "USD")}, rate \in {1, MaxRate} :
        AddRecord(pair, rate)

SpecHistory == InitHistory /\ [][NextHistory]_vars

\* a scheduler just constructed
InitSched ==
    /\ wallet = 0
    /\ wres = NoCall
    /\ session = FALSE
    /\ wallets = EmptyMap
    /\ portfoliosFile = EmptyMap
    /\ ratesFile = NoFile
    /\ dbCache = NotLoaded
    /\ last = NoOp
    /\ pc = IdlePc
    /\ loc = IdleLoc
    /\ now = 0
    /\ history = NoHistory
    /\ upd = NoRun
    /\ req = NoRequest
    /\ config = DefaultConfig
    /\ store = NoStore
    /\ sched = NoScheduler

NextSched ==
    \/ Start
    \/ Stop_
    \/ JoinReturns
    \/ \E w \in Workers : LoopTest(w)
    \/ \E w \in Workers : CycleEnds(w)
    \/ \E w \in Workers : Caught(w)
    \/ \E w \in Workers : Waiting(w)
    \/ \E w \in Workers : WaitReturns(w)

\* every worker thread is scheduled, run_update ends, and a join returns
SpecSched ==
    /\ InitSched
    /\ [][NextSched]_vars
    /\ WF_vars(JoinReturns)
    /\ \A w \in Workers :
          /\ WF_vars(LoopTest(w))
          /\ WF_vars(CycleEnds(w))
          /\ WF_vars(Caught(w))
          /\ WF_vars(Waiting(w))
          /\ WF_vars(WaitReturns(w))

\* one updater running cycles while a reader reads
NextReadWrite ==
    \/ \E plan \in Plans : StartCycle(1, plan)
    \/ ReadData(1)
    \/ OpenTemp(1)
    \/ Dump(1)
    \/ Replace(1)
    \/ Read

SpecReadWrite == InitSched /\ [][NextReadWrite]_vars

\* two updaters, each with its own RatesStorage object, and a reader
NextWriters ==
    \/ \E x \in Writers, plan \in Plans : StartCycle(x, plan)
    \/ \E x \in Writers : ReadData(x)
    \/ \E x \in Writers : OpenTemp(x)
    \/ \E x \in Writers : Dump(x)
    \/ \E x \in Writers : Replace(x)
    \/ Read

SpecWriters == InitSched /\ [][NextWriters]_vars

InitRequest ==
    /\ wallet = 0
    /\ wres = NoCall
    /\ session = FALSE
    /\ wallets = EmptyMap
    /\ portfoliosFile = EmptyMap
    /\ ratesFile = NoFile
    /\ dbCache = NotLoaded
    /\ last = NoOp
    /\ pc = IdlePc
    /\ loc = IdleLoc
    /\ now = 0
    /\ history = NoHistory
    /\ upd = NoRun
    /\ req = NoRequest
    /\ config = DefaultConfig
    /\ store = NoStore
    /\ sched = NoScheduler

SpecRequest ==
    /\ InitRequest
    /\ [][NextRequest]_vars
    /\ WF_vars(\E outcome \in Outcomes : Attempt(outcome))
    /\ WF_vars(Sleep)

\* two concurrent ledger calls of a logged-in user
InitConc ==
    /\ wallet = 0
    /\ wres = NoCall
    /\ session = TRUE
    /\ wallets \in MapsOver({"BTC", "EUR"}, 0 .. MaxStored)
    /\ portfoliosFile = wallets
    /\ ratesFile \in {File(EmptyMap, EmptyMap),
                      File(EmptyMap, Single(Key("BTC", "USD"), MaxRate))}
    /\ dbCache = NotLoaded
    /\ last = [NoOp EXCEPT !.op = "login", !.ok = TRUE, !.sess = TRUE,
                           !.pre = wallets, !.prePersist = portfoliosFile,
                           !.preFile = ratesFile]
    /\ pc = IdlePc
    /\ loc = IdleLoc
    /\ now = 0
    /\ history = NoHistory
    /\ upd = NoRun
    /\ req = NoRequest
    /\ config = DefaultConfig
    /\ store = NoStore
    /\ sched = NoScheduler

NextConc ==
    \E t \in Threads :
        \/ \E op \in {"buy", "sell"}, code \in {"BTC", "EUR"}, amount \in 1 .. MaxAmount :
               Begin(t, op, code, amount)
        \/ SellGetWallet(t)
        \/ SellCheckFunds(t)
        \/ SellRate(t)
        \/ WithdrawCheck(t)
        \/ WithdrawLoad(t)
        \/ WithdrawStore(t)
        \/ SellUsdWallet(t)
        \/ BuyRate(t)
        \/ BuyUsdWallet(t)

SpecConc == InitConc /\ [][NextConc]_vars

----------------------------------------------------------------------------
(* Claims *)

\* C1: a wallet whose balance starts non-negative never holds a negative
\* balance, whatever deposit and withdraw calls are made on it, and every
\* withdraw of more than the balance raises and leaves the balance unchanged.
C1_WalletNeverNegative ==
    /\ ~FLt(wallet, 0)
    /\ (wres.op = "withdraw" /\ FGt(wres.amount, wres.pre))
         => (wres.raised # "none" /\ wallet = wres.pre)

\* C1 witness: a withdraw of more than a positive balance has been refused
C1_Witness ==
    /\ wres.op = "withdraw"
    /\ FGt(wres.amount, wres.pre)
    /\ wres.pre > 0
    /\ wres.raised = "ValueError"

\* balance < amount * rate, as Python compares floats (rate positive)
FundsShort(b, a, r) ==
    IF IsNaN(b) \/ IsNaN(a) THEN FALSE
    ELSE IF a = Inf THEN b # Inf
    ELSE IF b = Inf THEN FALSE
    ELSE b * r.d < a * r.n

\* the last call was op, made with a valid session, a finite or infinite
\* amount > 0 and a registered currency other than USD
ValidCall(op) ==
    /\ last.op = op
    /\ last.sess
    /\ FGt(last.amount, 0)
    /\ get_currency(last.code)
    /\ last.code # "USD"

\* C2: when buy_currency or sell_currency returns a failure result, the
\* session portfolio (its wallets and their balances) is what it was before.
C2_FailureLeavesPortfolio ==
    (last.op \in {"buy", "sell"} /\ ~last.ok) => wallets = last.pre

\* C2: a sell has returned a failure result after debiting the wallet
C2_PartialDebit ==
    /\ last.op = "sell"
    /\ ~last.ok
    /\ last.kind = "AttributeError"
    /\ IsFinite(last.amount)
    /\ Bal(wallets, last.code) = Bal(last.pre, last.code) - last.amount
    /\ portfoliosFile = last.prePersist

\* C3: a buy for which the USD balance is below amount * rate fails, and the
\* balances of the USD wallet and of the target wallet are unchanged.
C3_BuyShortOfFunds ==
    (/\ ValidCall("buy")
     /\ RateTruthy(last.rate)
     /\ FundsShort(Bal(last.pre, "USD"), last.amount, last.rate))
    => (/\ ~last.ok
        /\ Bal(wallets, "USD") = Bal(last.pre, "USD")
        /\ Bal(wallets, last.code) = Bal(last.pre, last.code))

\* C3 witness: a buy short of funds, made with a positive USD balance
C3_Witness ==
    /\ ValidCall("buy")
    /\ RateTruthy(last.rate)
    /\ Bal(last.pre, "USD") > 0
    /\ FundsShort(Bal(last.pre, "USD"), last.amount, last.rate)
    /\ ~last.ok

\* C4: a buy of a finite amount a > 0 of a registered non-base currency with
\* an available rate r and a USD balance >= a * r succeeds, takes a * r from
\* the USD wallet and adds a to the wallet of the currency.
C4_BuySucceeds ==
    (/\ ValidCall("buy")
     /\ IsFinite(last.amount)
     /\ RateTruthy(last.rate)
     /\ IsFinite(Bal(last.pre, "USD"))
     /\ IsFinite(Bal(last.pre, last.code))
     /\ ~FundsShort(Bal(last.pre, "USD"), last.amount, last.rate))
    => (/\ last.ok
        /\ Bal(wallets, "USD") * last.rate.d
             = Bal(last.pre, "USD") * last.rate.d - last.amount * last.rate.n
        /\ Bal(wallets, last.code) = Bal(last.pre, last.code) + last.amount)

\* C5: a sell of a finite amount a > 0 from a wallet holding at least a, with
\* an available rate r, succeeds, takes a from the wallet and adds a * r to
\* the USD wallet; a sell of more than the wallet holds fails for lack of
\* funds before the rate is looked up and leaves the USD wallet alone.
C5_SellSucceeds ==
    /\ (/\ ValidCall("sell")
        /\ IsFinite(last.amount)
        /\ last.code \in DOMAIN last.pre
        /\ IsFinite(Bal(last.pre, last.code))
        /\ IsFinite(Bal(last.pre, "USD"))
        /\ last.amount <= Bal(last.pre, last.code)
        /\ RateTruthy(get_rate_with_ttl(last.code, "USD", last.preFile, last.preCache).rate))
       => (/\ last.ok
           /\ Bal(wallets, last.code) = Bal(last.pre, last.code) - last.amount
           /\ Bal(wallets, "USD") * last.rate.d
                = Bal(last.pre, "USD") * last.rate.d + last.amount * last.rate.n)
    /\ (/\ ValidCall("sell")
        /\ FLt(Bal(last.pre, last.code), last.amount))
       => (/\ ~last.ok
           /\ last.kind = "InsufficientFunds"
           /\ last.reads = 0
           /\ ratesFile = last.preFile
           /\ dbCache = last.preCache
           /\ Bal(wallets, "USD") = Bal(last.pre, "USD"))

\* C6: a sell of a currency the portfolio holds no wallet of fails, creates
\* no wallet and changes no balance.
C6_SellWithoutWallet ==
    (last.op = "sell" /\ last.code \notin DOMAIN last.pre)
    => (~last.ok /\ wallets = last.pre)

\* C7: a buy with an amount <= 0, of USD, of an unregistered currency or of a
\* currency with no rate to USD returns a failure result, changes no wallet
\* and stores nothing; with a valid session the failure is the rejection of
\* that input.
C7_BuyRejected ==
    (/\ last.op = "buy"
     /\ \/ FLe(last.amount, 0)
        \/ last.code = "USD"
        \/ ~get_currency(last.code)
        \/ ~RateTruthy(get_rate_with_ttl(last.code, "USD", last.preFile,
                                         last.preCache).rate))
    => (/\ ~last.ok
        /\ ~last.saved
        /\ wallets = last.pre
        /\ portfoliosFile = last.prePersist
        /\ last.sess => last.kind \in {"ValidationError", "CurrencyNotFoundError",
                                       "BaseCurrency", "ApiRequestError"})

\* C7 witness: a buy refused because no rate to USD could be resolved, made
\* by a user who holds USD
C7_Witness ==
    /\ ValidCall("buy")
    /\ last.kind = "ApiRequestError"
    /\ Bal(last.pre, "USD") > 0
    /\ ~last.ok

\* C10: resolving the rate of a registered currency to itself gives exactly
\* 1.0 and neither reads nor writes the rate store, in the public rate query
\* and in the lookup of the ledger.
C10_SameCurrencyNoStore ==
    (/\ last.op \in {"get_exchange_rate", "_get_rate_with_ttl"}
     /\ last.code = last.to
     /\ get_currency(last.code))
    => (/\ last.ok
        /\ last.rate = One
        /\ last.reads = 0
        /\ last.writes = 0
        /\ ratesFile = last.preFile
        /\ dbCache = last.preCache)

\* C10: the public rate query has answered a same-currency request with 1.0
\* without reading or writing the rate store
C10_PublicQueryNoStore ==
    /\ last.op = "get_exchange_rate"
    /\ last.code = last.to
    /\ last.ok
    /\ last.rate = One
    /\ last.reads = 0
    /\ last.writes = 0
    /\ ratesFile.exists

\* the wallets after the call of thread t has run alone on the wallets ws
RunAlone(ws, t) ==
    IF loc[t].op = "sell"
    THEN sell_currency(TRUE, ws, last.preFile, last.preCache,
                       loc[t].code, loc[t].amount).wallets
    ELSE buy_currency(TRUE, ws, last.preFile, last.preCache,
                      loc[t].code, loc[t].amount).wallets

\* C9: when two concurrent buy/sell calls of one user have both returned, the
\* wallets are those of running the two calls one after the other, in one of
\* the two orders.
C9_Serialized ==
    (pc[1] = "done" /\ pc[2] = "done")
    => wallets \in {RunAlone(RunAlone(last.pre, 1), 2),
                    RunAlone(RunAlone(last.pre, 2), 1)}

\* C9: two concurrent sells have driven a balance below zero
C9_NegativeBalance ==
    /\ pc[1] = "done" /\ pc[2] = "done"
    /\ loc[1].op = "sell" /\ loc[2].op = "sell"
    /\ FLt(Bal(wallets, "BTC"), 0)

\* the store holds a record of the pair, under "pairs" or at the top level
Held(file, k) == k \in (DOMAIN file.pairs) \cup (DOMAIN file.top)
\* the rate of that record; the top-level record is the one looked up first
HeldRate(file, k) == IF k \in DOMAIN file.top THEN file.top[k] ELSE file.pairs[k]

\* the last call was a rate query for two distinct registered currencies
RateQuery ==
    /\ last.op \in {"get_exchange_rate", "_get_rate_with_ttl"}
    /\ last.code # last.to
    /\ get_currency(last.code)
    /\ get_currency(last.to)

\* C11: with A_USD = r1 and B_USD = r2 stored and neither A_B nor B_A, the
\* public rate query for A -> B answers r1 / r2 (triangulation through USD);
\* when a leg is missing it fails with rate unavailable.
C11_Triangulates ==
    (/\ last.op = "get_exchange_rate"
     /\ RateQuery
     /\ last.code # "USD" /\ last.to # "USD"
     /\ ~Held(last.preFile, Key(last.code, last.to))
     /\ ~Held(last.preFile, Key(last.to, last.code)))
    => LET a == Key(last.code, "USD")
           b == Key(last.to, "USD")
           p == last.preFile.pairs
       IN  /\ (/\ a \in DOMAIN p /\ p[a] > 0
               /\ b \in DOMAIN p /\ p[b] > 0)
              => (last.ok /\ SameRate(last.rate, Quotient(Rate(p[a]), Rate(p[b]))))
           /\ (~Held(last.preFile, a) \/ ~Held(last.preFile, b))
              => (~last.ok /\ last.kind = "ApiRequestError")

\* C11: the public rate query has answered rate unavailable although both
\* legs to USD are stored and _convert_through_usd gives the cross rate
C11_NoTriangulation ==
    /\ last.op = "get_exchange_rate"
    /\ last.code = "BTC" /\ last.to = "EUR"
    /\ ~last.ok /\ last.kind = "ApiRequestError"
    /\ RateTruthy(convert_through_usd("BTC", "EUR", last.preFile, last.preCache).rate)

\* C12: a rate query for A -> B returns the rate of the stored record A_B
\* when there is one, without using B_A (no rate when that record holds 0);
\* otherwise 1 / r for a stored record B_A with a non-zero rate r; a stored
\* rate of 0 is never divided by.
C12_LookupOrder ==
    RateQuery =>
        LET d == Key(last.code, last.to)
            i == Key(last.to, last.code)
            f == last.preFile
        IN  /\ Held(f, d) => IF HeldRate(f, d) = 0
                              THEN ~RateTruthy(last.rate)
                              ELSE last.rate = Rate(HeldRate(f, d))
            /\ (~Held(f, d) /\ Held(f, i) /\ HeldRate(f, i) # 0)
                 => last.rate = Inverse(HeldRate(f, i))
            /\ (~Held(f, d) /\ Held(f, i) /\ HeldRate(f, i) = 0)
                 => (IsNone(last.rate) /\ ~last.ok)

\* C12: the lookup has answered with the inverse of B_A although a record of
\* the direct pair A_B is stored
C12_InverseDespiteDirect ==
    /\ RateQuery
    /\ Key(last.code, last.to) \in DOMAIN last.preFile.pairs
    /\ Key(last.to, last.code) \in DOMAIN last.preFile.pairs
    /\ DOMAIN last.preFile.top = {}
    /\ last.ok
    /\ last.rate = Inverse(last.preFile.pairs[Key(last.to, last.code)])
    /\ last.rate # Rate(last.preFile.pairs[Key(last.code, last.to)])

\* C13: when one stored record answers both directions of a pair (A -> B
\* directly and B -> A as its inverse, or the other way round), the two
\* rates multiply to 1.
C13_Reciprocal ==
    LET d == Key(last.code, last.to)
        i == Key(last.to, last.code)
        back == get_rate_with_ttl(last.to, last.code, ratesFile, dbCache).rate
    IN  (/\ RateQuery
         /\ Held(ratesFile, d) # Held(ratesFile, i)
         /\ RateTruthy(last.rate)
         /\ RateTruthy(back))
        => last.rate.n * back.n = last.rate.d * back.d

\* C13 witness: a stored rate other than 1 has been returned for one
\* direction and its inverse is what the other direction resolves to
C13_Witness ==
    /\ RateQuery
    /\ Held(ratesFile, Key(last.code, last.to))
    /\ ~Held(ratesFile, Key(last.to, last.code))
    /\ last.rate = Rate(MaxRate)
    /\ get_rate_with_ttl(last.to, last.code, ratesFile, dbCache).rate = Inverse(MaxRate)

\* C14: the passing of time never changes the rate a lookup returns: for
\* every pair, the rate resolved from the same store is the same before and
\* after the clock moves, whatever the age of the records becomes.
C14_AgeDoesNotChangeRate ==
    [][\A from \in {"BTC", "USD"}, to \in {"BTC", "USD"} :
          now' # now =>
              get_rate_with_ttl(from, to, ratesFile, dbCache).rate
                  = (get_rate_with_ttl(from, to, ratesFile, dbCache).rate)']_vars

\* C14 witness: a rate older than the TTL has been returned, with the
\* warning logged
C14_Witness ==
    /\ RateQuery
    /\ last.stale
    /\ last.ok
    /\ Key("BTC", "USD") \in DOMAIN last.preFile.top
    /\ Key("BTC", "USD") \in DOMAIN last.preFile.at
    /\ last.at - last.preFile.at[Key("BTC", "USD")] > CACHE_TTL_SECONDS
    /\ last.rate = Rate(last.preFile.top[Key("BTC", "USD")])

\* C19: _make_request makes at most `retries` (MAX_RETRIES) attempts, goes on
\* to the next attempt after each transient failure while attempts remain,
\* ends with a 200 response or with ApiRequestError, and always ends.
C19_RequestTerminates ==
    /\ [](Len(req.trace) <= req.retries /\ req.retries <= MAX_RETRIES)
    /\ [](req.pc = "done" =>
            /\ req.result \in {"response", "ApiRequestError"}
            /\ req.result = "response" <=>
                  (req.trace # <<>> /\ req.trace[Len(req.trace)] = "200")
            /\ (req.trace # <<>> /\ req.trace[Len(req.trace)] \in Transient)
                  => Len(req.trace) = req.retries)
    /\ (req.pc \in {"try", "sleep"} ~> req.pc = "done")

\* C19 witness: a request has failed after MAX_RETRIES timeouts
C19_Witness ==
    /\ req.pc = "done"
    /\ req.retries = MAX_RETRIES
    /\ req.trace = <<"Timeout", "Timeout", "Timeout">>
    /\ req.result = "ApiRequestError"

\* C20: a 429 or 401 response ends the attempt cycle at once: the request is
\* over with ApiRequestError, the response is the last attempt made, and the
\* only delays slept are those after the transient failures before it.
C20_RateLimitIsTerminal ==
    \A i \in 1 .. Len(req.trace) :
        req.trace[i] \in {"429", "401"} =>
            /\ i = Len(req.trace)
            /\ req.pc = "done"
            /\ req.result = "ApiRequestError"
            /\ req.sleeps = i - 1
            /\ \A j \in 1 .. (i - 1) : req.trace[j] \in Transient

\* C20 witness: a 429 response has ended a cycle after a timeout, with
\* attempts remaining
C20_Witness ==
    /\ req.pc = "done"
    /\ req.retries = MAX_RETRIES
    /\ req.trace = <<"Timeout", "429">>
    /\ req.sleeps = 1
    /\ req.result = "ApiRequestError"

\* the clients the filter of the last run lets through
SelectedClients == {Clients[i] : i \in {j \in 1 .. Len(Clients) : Selected(Clients[j], upd.filter)}}

\* the client was polled in the last run and fetch_rates raised
Threw(c) == c \in DOMAIN upd.fetched /\ upd.fetched[c].polled /\ upd.fetched[c].raised
\* the client was polled in the last run and fetch_rates returned
Returned(c) == c \in DOMAIN upd.fetched /\ upd.fetched[c].polled /\ ~upd.fetched[c].raised

\* the number of entries of the error list that name the client
ErrorsOf(c) == Cardinality({i \in 1 .. Len(upd.report.errors) : upd.report.errors[i] = c})

\* the records the last run added to the history for the client
AddedFor(c) ==
    {i \in 1 .. Len(history.log) :
        /\ history.log[i].timestamp > upd.preHistory.clock
        /\ history.log[i].source = c}

RECURSIVE SumOver(_, _)
SumOver(f, S) ==
    IF S = {} THEN 0
    ELSE LET x == CHOOSE y \in S : TRUE IN f[x] + SumOver(f, S \ {x})

C18_NeverEmpty ==
    \A c \in DOMAIN upd.fetched : Returned(c) => DOMAIN upd.fetched[c].rates # {}

\* C18: CoinGecko's fetch_rates has returned an empty map
C18_EmptyReturned ==
    /\ upd.runs > 0
    /\ Returned("CoinGecko")
    /\ upd.fetched["CoinGecko"].rates = EmptyMap
    /\ upd.report.by_source["CoinGecko"] = 0
    /\ upd.report.errors = <<>>

\* C29: deposit(amount) and withdraw(amount) with amount <= 0 raise and leave
\* the balance as it was; a deposit that returns has added the amount to the
\* balance and a withdraw that returns has taken it off (finite values).
C29_WalletMutations ==
    /\ (wres.op \in {"deposit", "withdraw"} /\ FLe(wres.amount, 0)) =>
          (wres.raised # "none" /\ wallet = wres.pre)
    /\ (wres.op \in {"deposit", "withdraw"} /\ wres.raised # "none") =>
          wallet = wres.pre
    /\ (wres.op = "deposit" /\ wres.raised = "none"
          /\ IsFinite(wres.pre) /\ IsFinite(wres.amount)) =>
          wallet = wres.pre + wres.amount
    /\ (wres.op = "withdraw" /\ wres.raised = "none"
          /\ IsFinite(wres.pre) /\ IsFinite(wres.amount)) =>
          wallet = wres.pre - wres.amount

\* C29 witness: a deposit of a negative amount on a funded wallet was refused
C29_Witness ==
    /\ wres.op = "deposit"
    /\ wres.amount = 0 - 1
    /\ wres.raised = "ValueError"
    /\ wres.pre > 0
    /\ wallet = wres.pre

\* the answer of ExchangeRate-API in the last run
FiatResponse == upd.resps[2]
\* the answer with the currencies outside the tracked set taken out
TrackedOnly(resp) ==
    [resp EXCEPT !.data = [c \in DOMAIN resp.data \cap FIAT_CURRENCIES |-> resp.data[c]]]

\* C21: every pair the fiat client emits has the key CODE_BASE with CODE a
\* tracked fiat currency of the payload and the value 1 / provider_rate of
\* that CODE; the currencies of the payload outside the tracked set give no
\* pair and do not change the outcome of fetch_rates.
C21_FiatPairsInverted ==
    (upd.runs > 0 /\ Selected("ExchangeRate-API", upd.filter)) =>
        LET f == upd.fetched["ExchangeRate-API"] IN
        /\ \A k \in DOMAIN f.rates :
              /\ k[2] = BASE_CURRENCY
              /\ k[1] \in FIAT_CURRENCIES \cap DOMAIN FiatResponse.data
              /\ LET v == FiatResponse.data[k[1]] IN
                    /\ v.kind = "num" => f.rates[k] * v.n = v.d
                    /\ v.kind = "inf" => f.rates[k] = 0
                    /\ v.kind = "nan" => IsNaN(f.rates[k])
        /\ LET g == ExchangeRate_fetch_rates(TrackedOnly(FiatResponse)) IN
              g.raised = f.raised /\ g.rates = f.rates

\* C21 witness: a payload with EUR at 1/MaxRate and the base currency itself
\* gave the one pair EUR_USD at MaxRate
C21_Witness ==
    /\ upd.runs > 0
    /\ Returned("ExchangeRate-API")
    /\ DOMAIN FiatResponse.data = {"EUR", "USD"}
    /\ FiatResponse.data["EUR"] = Num(1, MaxRate)
    /\ upd.fetched["ExchangeRate-API"].rates = Single(Key("EUR", "USD"), MaxRate)
    /\ ratesFile.pairs[Key("EUR", "USD")] = MaxRate

\* C30: every rate in the rate store after run_update is strictly positive.
C30_StoredRatesPositive ==
    upd.runs > 0 => \A k \in DOMAIN ratesFile.pairs : FGt(ratesFile.pairs[k], 0)

\* C30: run_update has stored the rate 0 for EUR_USD
C30_ZeroStored ==
    /\ upd.runs > 0
    /\ Returned("ExchangeRate-API")
    /\ FiatResponse = Payload("success", Single("EUR", Infinite))
    /\ ratesFile.pairs[Key("EUR", "USD")] = 0
    /\ upd.report.success

\* C22: update_rates(rates, source) gives every pair of the batch the rate,
\* the one time of the call and the source, sets last_refresh to that time,
\* and leaves the record of every other pair as it was.
C22_BatchStamped ==
    last.op = "update_rates" =>
        LET old == RatesStorage(last.preFile) IN
        /\ DOMAIN ratesFile.pairs = (DOMAIN old.pairs) \cup (DOMAIN last.rates)
        /\ \A k \in DOMAIN last.rates :
              /\ ratesFile.pairs[k] = last.rates[k]
              /\ ratesFile.at[k] = last.at
              /\ ratesFile.source[k] = "CoinGecko"
        /\ ratesFile.last_refresh = last.at
        /\ \A k \in (DOMAIN old.pairs) \ (DOMAIN last.rates) :
              /\ ratesFile.pairs[k] = old.pairs[k]
              /\ ratesFile.at[k] = old.at[k]
              /\ ratesFile.source[k] = old.source[k]

\* C22 witness: a batch of two pairs was stored after the TTL had passed into
\* a file that held another pair, stored at second 0
C22_Witness ==
    /\ last.op = "update_rates"
    /\ DOMAIN last.rates = {Key("BTC", "USD"), Key("ETH", "USD")}
    /\ last.at > CACHE_TTL_SECONDS
    /\ Key("USD", "BTC") \in DOMAIN last.preFile.pairs
    /\ ratesFile.at[Key("USD", "BTC")] = 0
    /\ ratesFile.at[Key("BTC", "USD")] = last.at
    /\ ratesFile.at[Key("ETH", "USD")] = last.at
    /\ ratesFile.last_refresh = last.at

\* the number of records the history holds for a pair
KeptFor(p) == Len(RecordsOf(history.log, p))

\* C28: the history holds for each pair at most N records, N being the
\* configured maximum of history entries per pair.
C28_AtMostConfigured ==
    \A p \in {Key("BTC", "USD"), Key("EUR", "USD")} :
        KeptFor(p) <= config.MAX_HISTORY_PER_PAIR

\* C28: with a configured maximum of MaxKept the history holds more than
\* MaxKept records of BTC_USD
C28_OverConfigured ==
    /\ config.MAX_HISTORY_PER_PAIR = MaxKept
    /\ KeptFor(Key("BTC", "USD")) > MaxKept

\* C26: at most one worker loop of the scheduler is alive and at most one
\* run_update started by it is executing.
C26_OneWorker ==
    /\ Cardinality({w \in Workers : Alive(w)}) <= 1
    /\ Cardinality({w \in Workers : sched.workers[w].pc = "run"}) <= 1

\* C26: after a stop() whose join timed out and a second start(), two
\* workers are inside run_update
C26_TwoCycles ==
    /\ sched.timedOut
    /\ sched.starts = 2
    /\ sched.workers[1].pc = "run"
    /\ sched.workers[2].pc = "run"

\* C27: once the stop event is set, a waiting worker sleeps no further, no
\* worker enters run_update from the loop test, and every worker alive ends
\* unless start() clears the event again.
C27_Cancellable ==
    /\ [][\A w \in Workers :
            /\ (sched.event /\ sched.workers[w].pc = "wait") =>
                  sched'.workers[w].left = sched.workers[w].left
            /\ (sched.event /\ sched.workers[w].pc = "test") =>
                  sched'.workers[w].pc # "run"]_vars
    /\ \A w \in Workers :
          (sched.event /\ Alive(w)) ~> (~Alive(w) \/ ~sched.event)

\* C27 witness: stop() has returned without a timeout and the worker, which
\* had run a cycle, has ended
C27_Witness ==
    /\ sched.event
    /\ ~sched.running
    /\ ~sched.timedOut
    /\ sched.main = "idle"
    /\ sched.workers[1].pc = "done"
    /\ sched.workers[1].cycles > 0

\* C23: a read that runs while a writer is at work returns a complete
\* document: the content before the put in progress or the content after it.
C23_NoTornRead ==
    store.seen.valid =>
        /\ ~store.seen.torn
        /\ store.seen.pairs \in {store.seen.before, store.seen.after}

\* C23 witness: a read between the writing of rates.tmp and the replace
\* returned the content before the put
C23_Witness ==
    /\ store.seen.valid
    /\ ~store.seen.torn
    /\ store.w[1].pc = "replace"
    /\ store.tmp # 0
    /\ store.seen.pairs = store.seen.before
    /\ store.seen.pairs # store.seen.after

\* C24: the snapshot of a read made while a refresh cycle is in progress
\* holds none or all of the pairs that cycle writes.
C24_NoMixedCycle ==
    store.seen.valid =>
        \A c \in store.seen.running :
            LET new == {k \in c.keys \cap DOMAIN store.seen.pairs :
                           store.seen.pairs[k] = c.id}
            IN  new = {} \/ new = c.keys

\* C24: a read between the two update_rates calls of cycle 1 returned
\* BTC_USD of the cycle and EUR_USD from before it
C24_MixedSnapshot ==
    /\ store.seen.valid
    /\ ~store.seen.torn
    /\ \E c \in store.seen.running : c.id = 1 /\ c.keys = StoreKeys
    /\ store.seen.pairs[Key("BTC", "USD")] = 1
    /\ store.seen.pairs[Key("EUR", "USD")] = 0

\* C25: the read-modify-write sections of two update_rates calls never
\* overlap, and once the writers are done the file holds the pairs of every
\* batch whose update_rates returned.
C25_WritersSerialized ==
    /\ ~(InSection(store, 1) /\ InSection(store, 2))
    /\ (\A x \in Writers : store.w[x].pc = "idle") =>
          /\ ~store.inodes[store.file].torn
          /\ \A k \in store.written :
                /\ k \in DOMAIN store.inodes[store.file].pairs
                /\ store.inodes[store.file].pairs[k] # 0

\* C25: both update_rates calls have returned without an error and the
\* file holds the BTC_USD from before them
C25_LostUpdate ==
    /\ \A x \in Writers : store.w[x].pc = "idle"
    /\ store.cycles = 2
    /\ ~store.raised
    /\ store.written = StoreKeys
    /\ ~store.inodes[store.file].torn
    /\ store.inodes[store.file].pairs[Key("BTC", "USD")] = 0

----------------------------------------------------------------------------
(* The TTL policy of the rate lookup *)

\* the updated_at the TTL check reads for a pair: that of the pair's entry
\* under "pairs", else that of the reverse pair's entry
HasUpdatedAt(from, to, file) ==
    Key(from, to) \in DOMAIN file.at \/ Key(to, from) \in DOMAIN file.at

UpdatedAt(from, to, file) ==
    IF Key(from, to) \in DOMAIN file.at
    THEN file.at[Key(from, to)]
    ELSE file.at[Key(to, from)]

\* the last call was _get_rate_with_ttl for two different codes and it
\* returned a rate
LookupReturned ==
    /\ last.op = "_get_rate_with_ttl"
    /\ last.code # last.to
    /\ ~IsNone(last.rate)

\* the last lookup reached the TTL check: DatabaseManager.get_rate answered
TtlCheckReached ==
    ~IsNone(get_rate(last.code, last.to, last.preFile, last.preCache).rate)

\* C31: a rate returned by _get_rate_with_ttl while the stored record of
\* the pair (or of the reverse pair) is older than the TTL always comes with
\* the staleness warning.
C31_StaleAlwaysWarned ==
    (/\ LookupReturned
     /\ HasUpdatedAt(last.code, last.to, last.preFile)
     /\ last.at - UpdatedAt(last.code, last.to, last.preFile) > CACHE_TTL_SECONDS)
        => last.stale

\* C31: a rate read from the entry under "pairs" after DatabaseManager.get_rate
\* had no answer, returned without a warning although the entry is older
\* than the TTL
C31_UncheckedReturn ==
    /\ LookupReturned
    /\ ~TtlCheckReached
    /\ HasUpdatedAt(last.code, last.to, last.preFile)
    /\ last.at - UpdatedAt(last.code, last.to, last.preFile) > CACHE_TTL_SECONDS
    /\ ~last.stale

\* C32: when the TTL check is made for a record whose age is TTL_SECONDS or
\* more, the record is classified stale.
C32_StaleFromTtl ==
    (/\ LookupReturned
     /\ TtlCheckReached
     /\ HasUpdatedAt(last.code, last.to, last.preFile)
     /\ last.at - UpdatedAt(last.code, last.to, last.preFile) >= CACHE_TTL_SECONDS)
        => last.stale

\* C32: the TTL check was made for a record of age TTL_SECONDS exactly and
\* classified it fresh
C32_FreshAtTtl ==
    /\ LookupReturned
    /\ TtlCheckReached
    /\ HasUpdatedAt(last.code, last.to, last.preFile)
    /\ last.at - UpdatedAt(last.code, last.to, last.preFile) = CACHE_TTL_SECONDS
    /\ ~last.stale

\* the TTL check errs at the boundary only: a record older than TTL_SECONDS
\* is classified stale whenever the check is made
OlderIsStale ==
    (/\ LookupReturned
     /\ TtlCheckReached
     /\ HasUpdatedAt(last.code, last.to, last.preFile)
     /\ last.at - UpdatedAt(last.code, last.to, last.preFile) > CACHE_TTL_SECONDS)
        => last.stale

----------------------------------------------------------------------------
(* The order of the history log *)

\* the records of a log, as a set
Records(log) == {log[i] : i \in 1 .. Len(log)}

\* the records of the log before a step that the step kept, in their order
\* before the step
KeptInOrder(before, after) == SelectSeq(before, LAMBDA r : r \in Records(after))

\* C33: a step of add_record that changes the log leaves the records it
\* keeps in their stored order and places the one new record after all of
\* them; while a pair has no more than the cap it removes none.
C33_AppendOnly ==
    [][history'.log # history.log =>
          /\ Len(history'.log) > 0
          /\ history'.log[Len(history'.log)].timestamp = history'.clock
          /\ SubSeq(history'.log, 1, Len(history'.log) - 1)
                = KeptInOrder(history.log, history'.log)
          /\ (\A i \in 1 .. Len(PairsOf(history.log)) :
                 Len(RecordsOf(history.log, PairsOf(history.log)[i])) < MAX_PER_PAIR)
                => Len(history'.log) = Len(history.log) + 1]_vars

\* C33: the file holds a record before an older record of the same pair
C33_NewerStoredFirst ==
    \E i, j \in 1 .. Len(history.log) :
        /\ i < j
        /\ history.log[i].pair = history.log[j].pair
        /\ history.log[i].timestamp > history.log[j].timestamp

\* what add_record does keep: no record is modified and, below the cap, none
\* is removed
RecordsKept ==
    [][Records(history.log) \subseteq Records(history'.log)]_vars

----------------------------------------------------------------------------
(* The source filter and the report of run_update *)

\* the filter string names the source of the client, whatever its case:
\* "coingecko" and the source name "CoinGecko" name the crypto client,
\* "exchangerate" and the source name "ExchangeRate-API" the fiat client
Names(filter, name) ==
    \/ Lower(filter) = "coingecko" /\ name = "CoinGecko"
    \/ Lower(filter) \in {"exchangerate", "exchangerate-api"}
          /\ name = "ExchangeRate-API"

\* the entries of the rate store the last run wrote for the client
WrittenFor(c) ==
    {k \in DOMAIN ratesFile.pairs :
        /\ ratesFile.source[k] = c
        /\ ~(/\ k \in DOMAIN upd.preFile.pairs
             /\ upd.preFile.source[k] = c
             /\ upd.preFile.pairs[k] = ratesFile.pairs[k])}

\* the client left no trace in the last run
NotTouched(c) ==
    /\ ~upd.fetched[c].polled
    /\ c \notin DOMAIN upd.report.by_source
    /\ ErrorsOf(c) = 0
    /\ WrittenFor(c) = {}
    /\ AddedFor(c) = {}

\* C34: in a run with a source filter, a client whose source the filter
\* does not name is not polled, writes nothing to the rate store or the
\* history and is absent from by_source.
C34_OnlyNamedSourcePolled ==
    (upd.runs > 0 /\ upd.filter # "") =>
        \A i \in 1 .. Len(Clients) :
            ~Names(upd.filter, Clients[i]) => NotTouched(Clients[i])

\* C34: a run filtered by the source name of the fiat client polled the
\* crypto client, stored its rate and counted it
C34_OtherSourcePolled ==
    /\ upd.runs > 0
    /\ upd.filter = "ExchangeRate-API"
    /\ upd.fetched["CoinGecko"].polled
    /\ "CoinGecko" \in DOMAIN upd.report.by_source
    /\ upd.report.by_source["CoinGecko"] = 1
    /\ WrittenFor("CoinGecko") # {}
    /\ AddedFor("CoinGecko") # {}

\* the two filters the code compares with, in any case, do exclude the
\* other client
ComparedFiltersExclude ==
    (upd.runs > 0 /\ Lower(upd.filter) \in {"coingecko", "exchangerate"}) =>
        \A i \in 1 .. Len(Clients) :
            ~Names(upd.filter, Clients[i]) => NotTouched(Clients[i])

\* C35: a client for which the report holds an error and counts 0 has
\* written nothing to the rate store and nothing to the history in that run.
C35_FailedClientWroteNothing ==
    upd.runs > 0 =>
        \A c \in DOMAIN upd.report.by_source :
            (ErrorsOf(c) > 0 /\ upd.report.by_source[c] = 0) =>
                /\ WrittenFor(c) = {}
                /\ AddedFor(c) = {}

\* C35: the crypto client is reported failed with count 0 and its BTC_USD is
\* in the rate store
C35_FailedButStored ==
    /\ upd.runs > 0
    /\ ErrorsOf("CoinGecko") = 1
    /\ "CoinGecko" \in DOMAIN upd.report.by_source
    /\ upd.report.by_source["CoinGecko"] = 0
    /\ ~upd.report.success
    /\ Returned("CoinGecko")
    /\ Key("BTC", "USD") \in WrittenFor("CoinGecko")

\* a client whose fetch_rates raised has written nothing
RaisedClientWroteNothing ==
    upd.runs > 0 =>
        \A c \in DOMAIN upd.fetched :
            Threw(c) => (WrittenFor(c) = {} /\ AddedFor(c) = {})

\* C36: total_rates of the report is the sum of the counts of by_source.
C36_TotalIsSumBySource ==
    upd.runs > 0 =>
        upd.report.total_rates =
            SumOver(upd.report.by_source, DOMAIN upd.report.by_source)

\* C36: both clients returned BTC_USD; each counts it and the total counts
\* it once
C36_SharedKeyCountedOnce ==
    /\ upd.runs > 0
    /\ upd.report.success
    /\ Key("BTC", "USD") \in DOMAIN upd.fetched["CoinGecko"].rates
    /\ Key("BTC", "USD") \in DOMAIN upd.fetched["ExchangeRate-API"].rates
    /\ upd.report.by_source = [c \in {"CoinGecko", "ExchangeRate-API"} |-> 1]
    /\ upd.report.total_rates = 1

\* with the default configuration the clients share no pair and the total
\* is the sum
DisjointTotalIsSum ==
    (upd.runs > 0 /\ config = DefaultConfig) =>
        upd.report.total_rates =
            SumOver(upd.report.by_source, DOMAIN upd.report.by_source)

----------------------------------------------------------------------------
(* The scheduler loop after a failed cycle *)

\* C37: a cycle that ends, with either report or with an exception, leaves
\* the worker in the loop: in the wait, or in the except clause and from
\* there in the wait; the wait ends only when the interval has passed or
\* the stop event is set; and a worker alive, the one in the except clause
\* after an exception of run_update included, starts its next cycle unless
\* stop() sets the event.
C37_FailureDoesNotStop ==
    /\ [][\A w \in Workers :
            /\ (sched.workers[w].pc = "run" /\ sched'.workers[w].pc # "run") =>
                  sched'.workers[w].pc \in {"wait", "except"}
            /\ (sched.workers[w].pc = "except" /\ sched'.workers[w].pc # "except") =>
                  /\ sched'.workers[w].pc = "wait"
                  /\ sched'.workers[w].left = MaxSleep
            /\ (sched.workers[w].pc = "wait" /\ sched'.workers[w].pc # "wait") =>
                  /\ sched'.workers[w].pc = "test"
                  /\ sched.event \/ sched.workers[w].left = 0]_vars
    /\ \A w \in Workers :
          (Alive(w) /\ ~sched.event)
              ~> (sched.workers[w].pc = "run" \/ sched.event)

\* C37 witness: the only worker ever started is in the except clause of its
\* second cycle, the scheduler running and stop() not called
C37_Witness ==
    /\ sched.starts = 1
    /\ sched.workers[1].pc = "except"
    /\ sched.workers[1].cycles = 2
    /\ sched.running
    /\ ~sched.event

----------------------------------------------------------------------------
(* Reading a rate after the update coordinator has stored it *)

\* the last call was _get_rate_with_ttl for a pair whose entry under "pairs"
\* was stored by the update coordinator
AskedAfterUpdate ==
    /\ last.op = "_get_rate_with_ttl"
    /\ last.code # last.to
    /\ Key(last.code, last.to) \in DOMAIN last.preFile.pairs
    /\ last.preFile.source[Key(last.code, last.to)] = "CoinGecko"

\* C38: a lookup of a pair made after update_rates has stored a rate for it
\* returns the rate stored.
C38_ReadAfterUpdate ==
    AskedAfterUpdate =>
        /\ ~IsNone(last.rate)
        /\ SameRate(last.rate, Rate(last.preFile.pairs[Key(last.code, last.to)]))

\* C38: the lookup returned the rate of the top-level entry of the pair,
\* which differs from the rate the update coordinator has stored
C38_OlderRateReturned ==
    /\ AskedAfterUpdate
    /\ Key(last.code, last.to) \in DOMAIN last.preFile.top
    /\ last.rate = Rate(last.preFile.top[Key(last.code, last.to)])
    /\ ~SameRate(last.rate, Rate(last.preFile.pairs[Key(last.code, last.to)]))

\* with no top-level entry of the pair or of the reverse pair, in the file
\* or in the DatabaseManager cache, the lookup returns the rate stored
FreshWithoutTopLevel ==
    (/\ AskedAfterUpdate
     /\ DOMAIN last.preFile.top = {}
     /\ last.preCache.loaded => DOMAIN last.preCache.data.top = {})
        => /\ ~IsNone(last.rate)
           /\ SameRate(last.rate, Rate(last.preFile.pairs[Key(last.code, last.to)]))

====
